---- MODULE Spec2Model ----
(***************************************************************************)
(* Aggregation and audit-logging engine of the budget tracker:             *)
(* BudgetItem -> Project -> ProjectBreakdown roll-ups, the trash cascade   *)
(* and the project activity log, modelled from the Convex mutations.       *)
(*                                                                         *)
(* Every exported mutation runs as one Convex transaction, so each is one  *)
(* action; a handler that throws rolls back and leaves the store as it     *)
(* was.  Timestamps (Date.now()) are not modelled; every other field the   *)
(* aggregation, the cascade and the log read or write is.                  *)
(***************************************************************************)
EXTENDS Integers, Sequences, FiniteSets, TLC

(* ---------------------------------------------------------------------- *)
(* Bounds                                                                  *)
(* ---------------------------------------------------------------------- *)
MaxBudgetItems == 2
MaxProjects == 2
MaxBreakdowns == 2
MaxAmount == 1
MaxLog == 4
MaxBulk == 2

(* ---------------------------------------------------------------------- *)
(* Values                                                                  *)
(* ---------------------------------------------------------------------- *)
\* JavaScript `undefined` / `null` for numbers and ids (both are naturals here)
Undefined == 0 - 1
\* JavaScript `undefined` for string-valued fields
UndefinedStr == "undefined"

ProjectNames == {"P", "Q"}
\* callers that pass no reason
NoReason == {UndefinedStr}

\* argument records the callers pass
BudgetItemArgs ==
  {[particulars |-> "A", totalBudgetAllocated |-> 0,
    obligatedBudget |-> Undefined, totalBudgetUtilized |-> 0],
   [particulars |-> "B", totalBudgetAllocated |-> 2 * MaxAmount,
    obligatedBudget |-> MaxAmount, totalBudgetUtilized |-> MaxAmount]}
\* the one budget line of the cascade specification
FundedBudgetItemArgs == {a \in BudgetItemArgs : a.totalBudgetAllocated > 0}
ProjectFinancials ==
  {[totalBudgetAllocated |-> 0, obligatedBudget |-> Undefined,
    totalBudgetUtilized |-> 0, reason |-> UndefinedStr],
   [totalBudgetAllocated |-> MaxAmount + 2, obligatedBudget |-> MaxAmount,
    totalBudgetUtilized |-> MaxAmount, reason |-> "audit"]}
SpentProjectFinancials == {f \in ProjectFinancials : f.totalBudgetUtilized > 0}

\* users table: user 1 is a super_admin, user 2 a plain user; a session of
\* user 3 is authenticated but its users row is gone
RegisteredUsers == (1 :> [role |-> "super_admin"]) @@ (2 :> [role |-> "user"])
\* the sessions of the aggregation specifications: nobody, and the admin
AdminSessions == {Undefined, 1}
\* every kind of caller: nobody, the admin, a plain user, a user without row
AllSessions == {Undefined, 1, 2, 3}
\* the admin and the user without row
StaleSessions == {1, 3}

Or0(x) == IF x = Undefined THEN 0 ELSE x

RECURSIVE GCD(_, _)
GCD(a, b) == IF b = 0 THEN a ELSE GCD(b, a % b)

\* a utilisation rate is the exact fraction <<numerator, denominator>>
Frac(n, d) == LET g == GCD(n, d) IN <<n \div g, d \div g>>

\* allocated > 0 ? (utilized / allocated) * 100 : 0
UtilizationRate(utilized, allocated) ==
  IF allocated > 0 THEN Frac(utilized * 100, allocated) ELSE <<0, 1>>

Min(S) == CHOOSE x \in S : \A y \in S : x <= y

(* ---------------------------------------------------------------------- *)
(* State                                                                   *)
(* ---------------------------------------------------------------------- *)
VARIABLES
  budgetItems,           \* table budgetItems: id -> document
  projects,              \* table projects: id -> document
  breakdowns,            \* table govtProjectBreakdowns: id -> document
  projectActivities,     \* table projectActivities, in insertion order
  budgetItemActivities,  \* table budgetItemActivities, in insertion order
  breakdownActivities,   \* table govtProjectBreakdownActivities
  nextId,                \* ids handed out so far, per table (never reused)
  users,                 \* table users: id -> document
  last,                  \* the last mutation: name, arguments, outcome
  tx                     \* how mutations execute, and what the running ones
                         \* have read and not yet written

vars == <<budgetItems, projects, breakdowns, projectActivities,
          budgetItemActivities, breakdownActivities, nextId, users, last, tx>>

\* the store as the handlers see it (ctx.db)
db == [budgetItems |-> budgetItems, projects |-> projects,
       breakdowns |-> breakdowns, projectActivities |-> projectActivities,
       budgetItemActivities |-> budgetItemActivities,
       breakdownActivities |-> breakdownActivities, nextId |-> nextId]

EmptyTable == [x \in {} |-> 0]

EmptyDb == [budgetItems |-> EmptyTable, projects |-> EmptyTable,
            breakdowns |-> EmptyTable, projectActivities |-> <<>>,
            budgetItemActivities |-> <<>>, breakdownActivities |-> <<>>,
            nextId |-> [budgetItems |-> 1, projects |-> 1, breakdowns |-> 1]]

\* a Convex mutation runs as one serializable transaction: nothing of it is
\* in flight between two steps
NoReads == [w \in {} |-> <<>>]
Serializable == [isolation |-> "serializable", reads |-> NoReads]

\* outcome of a handler or library call: a new store and a return value, or
\* a thrown error together with the store as the writes issued so far left it
Ok(d, ret) == [ok |-> TRUE, err |-> "", db |-> d, ret |-> ret]
Throw(d, e) == [ok |-> FALSE, err |-> e, db |-> d, ret |-> <<>>]

(* ---------------------------------------------------------------------- *)
(* lib/budgetAggregation.ts                                                *)
(* ---------------------------------------------------------------------- *)
\* the index lookup without the isDeleted filter
ProjectsOfIgnoringTrash(P, b) == {p \in DOMAIN P : P[p].budgetItemId = b}

\* query("projects").withIndex("budgetItemId", eq).filter(neq(isDeleted, true))
ActiveProjectsOf(P, b) ==
  {p \in DOMAIN P : P[p].budgetItemId = b /\ P[p].isDeleted # "true"}

\* the for-loop over the projects, in index (creation) order
RECURSIVE AggregateProjects(_, _, _)
AggregateProjects(P, S, acc) ==
  IF S = {} THEN acc
  ELSE LET p == Min(S)
           st == P[p].status
       IN AggregateProjects(P, S \ {p},
            [totalObligated |-> acc.totalObligated + Or0(P[p].obligatedBudget),
             totalUtilized |-> acc.totalUtilized + Or0(P[p].totalBudgetUtilized),
             completed |-> acc.completed + (IF st = "completed" THEN 1 ELSE 0),
             delayed |-> acc.delayed +
                 (IF st # "completed" /\ st = "delayed" THEN 1 ELSE 0),
             onTrack |-> acc.onTrack +
                 (IF st \notin {"completed", "delayed"} /\ st = "ongoing"
                  THEN 1 ELSE 0)])

\* the chain with its first two tests swapped
DeriveStatusDelayedFirst(completed, delayed, onTrack) ==
  IF delayed > 0 THEN "delayed"
  ELSE IF onTrack > 0 THEN "ongoing"
  ELSE IF completed > 0 THEN "completed"
  ELSE "ongoing"

\* the status priority chain shared by both aggregators
DeriveStatus(completed, delayed, onTrack) ==
  IF onTrack > 0 THEN "ongoing"
  ELSE IF delayed > 0 THEN "delayed"
  ELSE IF completed > 0 THEN "completed"
  ELSE "ongoing"

\* the rate taken over the projects' allocations instead of the item's own
BudgetItemMetricsOverProjectAllocations(d, b) ==
  LET S == {p \in DOMAIN d.projects : /\ d.projects[p].budgetItemId = b
                                      /\ d.projects[p].isDeleted # "true"}
      acc == AggregateProjects(d.projects, S,
               [totalObligated |-> 0, totalUtilized |-> 0,
                completed |-> 0, delayed |-> 0, onTrack |-> 0])
      alloc == AggregateProjects(
                 [p \in S |-> [d.projects[p] EXCEPT
                                 !.totalBudgetUtilized = d.projects[p].totalBudgetAllocated]],
                 S, [totalObligated |-> 0, totalUtilized |-> 0,
                     completed |-> 0, delayed |-> 0, onTrack |-> 0]).totalUtilized
  IN [projectsCount |-> Cardinality(S),
      completed |-> acc.completed,
      delayed |-> acc.delayed,
      onTrack |-> acc.onTrack,
      totalObligated |-> acc.totalObligated,
      totalUtilized |-> acc.totalUtilized,
      utilizationRate |-> UtilizationRate(acc.totalUtilized, alloc),
      status |-> IF Cardinality(S) = 0 THEN "ongoing"
                 ELSE DeriveStatus(acc.completed, acc.delayed, acc.onTrack)]

\* the value recalculateBudgetItemMetrics computes (and returns)
BudgetItemMetrics(d, b) ==
  LET S == ActiveProjectsOf(d.projects, b)
      acc == AggregateProjects(d.projects, S,
               [totalObligated |-> 0, totalUtilized |-> 0,
                completed |-> 0, delayed |-> 0, onTrack |-> 0])
  IN [projectsCount |-> Cardinality(S),
      completed |-> acc.completed,
      delayed |-> acc.delayed,
      onTrack |-> acc.onTrack,
      totalObligated |-> acc.totalObligated,
      totalUtilized |-> acc.totalUtilized,
      utilizationRate |->
        UtilizationRate(acc.totalUtilized, d.budgetItems[b].totalBudgetAllocated),
      status |-> IF Cardinality(S) = 0 THEN "ongoing"
                 ELSE DeriveStatus(acc.completed, acc.delayed, acc.onTrack)]

\* a patch that adds the sums to the stored ones
PatchBudgetItemMetricsAdding(item, m, userId) ==
  [item EXCEPT !.obligatedBudget = Or0(@) + m.totalObligated,
               !.totalBudgetUtilized = Or0(@) + m.totalUtilized,
               !.utilizationRate = m.utilizationRate,
               !.projectCompleted = m.completed,
               !.projectDelayed = m.delayed,
               !.projectsOnTrack = m.onTrack,
               !.status = m.status,
               !.updatedBy = userId]

\* the ctx.db.patch of recalculateBudgetItemMetrics
PatchBudgetItemMetrics(item, m, userId) ==
  [item EXCEPT !.obligatedBudget = m.totalObligated,
               !.totalBudgetUtilized = m.totalUtilized,
               !.utilizationRate = m.utilizationRate,
               !.projectCompleted = m.completed,
               !.projectDelayed = m.delayed,
               !.projectsOnTrack = m.onTrack,
               !.status = m.status,
               !.updatedBy = userId]

\* a recompute that returns early, without the patch, when nothing is active
recalculateBudgetItemMetricsSkipEmpty(d, b, userId) ==
  IF b \notin DOMAIN d.budgetItems THEN Throw(d, "Budget item not found")
  ELSE LET m == BudgetItemMetrics(d, b)
       IN IF m.projectsCount = 0 THEN Ok(d, m)
          ELSE Ok([d EXCEPT !.budgetItems[b] = PatchBudgetItemMetrics(@, m, userId)], m)

recalculateBudgetItemMetrics(d, b, userId) ==
  IF b \notin DOMAIN d.budgetItems THEN Throw(d, "Budget item not found")
  ELSE LET m == BudgetItemMetrics(d, b)
       IN Ok([d EXCEPT !.budgetItems[b] = PatchBudgetItemMetrics(@, m, userId)], m)

(* ---------------------------------------------------------------------- *)
(* budgetItems.ts                                                          *)
(* ---------------------------------------------------------------------- *)
\* lib/budgetActivityLogger: resolves the actor, appends one entry
logBudgetActivity(d, userId, action, b) ==
  IF userId \notin DOMAIN users THEN Throw(d, "User not found for logging")
  ELSE Ok([d EXCEPT !.budgetItemActivities =
             Append(@, [action |-> action, budgetItemId |-> b,
                        performedBy |-> userId,
                        performedByRole |-> users[userId].role])], <<>>)

\* the document budgetItems.create inserts
NewBudgetItemDoc(args, userId) ==
  [particulars |-> args.particulars,
   totalBudgetAllocated |-> args.totalBudgetAllocated,
   obligatedBudget |-> args.obligatedBudget,
   totalBudgetUtilized |-> args.totalBudgetUtilized,
   utilizationRate |-> UtilizationRate(args.totalBudgetUtilized,
                                       args.totalBudgetAllocated),
   projectCompleted |-> 0,
   projectDelayed |-> 0,
   projectsOnTrack |-> 0,
   status |-> "ongoing",
   createdBy |-> userId,
   updatedBy |-> Undefined]

budgetItemsCreate(d, userId, args) ==
  IF userId = Undefined THEN Throw(d, "Not authenticated")
  ELSE LET id == d.nextId.budgetItems
           doc == NewBudgetItemDoc(args, userId)
           d1 == [d EXCEPT !.budgetItems = (id :> doc) @@ @,
                           !.nextId.budgetItems = id + 1]
           r == logBudgetActivity(d1, userId, "created", id)
       IN IF r.ok THEN Ok(r.db, id) ELSE r


budgetItemsUpdate(d, userId, id, args) ==
  IF userId = Undefined THEN Throw(d, "Not authenticated")
  ELSE IF id \notin DOMAIN d.budgetItems THEN Throw(d, "Budget item not found")
  ELSE LET d1 == [d EXCEPT !.budgetItems[id] =
                    [@ EXCEPT !.particulars = args.particulars,
                              !.totalBudgetAllocated = args.totalBudgetAllocated,
                              !.obligatedBudget = args.obligatedBudget,
                              !.totalBudgetUtilized = args.totalBudgetUtilized,
                              !.utilizationRate =
                                 UtilizationRate(args.totalBudgetUtilized,
                                                 args.totalBudgetAllocated),
                              !.updatedBy = userId]]
           r == logBudgetActivity(d1, userId, "updated", id)
       IN IF r.ok THEN Ok(r.db, id) ELSE r

\* query("projects").withIndex("budgetItemId", eq).collect(): trashed included
LinkedProjects(P, b) == {p \in DOMAIN P : P[p].budgetItemId = b}

\* a removal whose precondition looks at the projects outside the trash only
budgetItemsRemoveIgnoringTrashed(d, userId, id) ==
  IF userId = Undefined THEN Throw(d, "Not authenticated")
  ELSE IF id \notin DOMAIN d.budgetItems THEN Throw(d, "Budget item not found")
  ELSE IF d.budgetItems[id].createdBy # userId THEN Throw(d, "Not authorized")
  ELSE IF Cardinality(ActiveProjectsOf(d.projects, id)) > 0
       THEN [Throw(d, "Cannot delete budget item with linked project(s)")
               EXCEPT !.ret = <<Cardinality(ActiveProjectsOf(d.projects, id))>>]
  ELSE LET r == logBudgetActivity(d, userId, "deleted", id)
       IN IF r.ok
          THEN Ok([r.db EXCEPT !.budgetItems =
                     [x \in DOMAIN @ \ {id} |-> @[x]]], id)
          ELSE r

\* a removal that does not look for linked projects
budgetItemsRemoveWithLinks(d, userId, id) ==
  IF userId = Undefined THEN Throw(d, "Not authenticated")
  ELSE IF id \notin DOMAIN d.budgetItems THEN Throw(d, "Budget item not found")
  ELSE IF d.budgetItems[id].createdBy # userId THEN Throw(d, "Not authorized")
  ELSE LET r == logBudgetActivity(d, userId, "deleted", id)
       IN IF r.ok
          THEN Ok([r.db EXCEPT !.budgetItems =
                     [x \in DOMAIN @ \ {id} |-> @[x]]], id)
          ELSE r

budgetItemsRemove(d, userId, id) ==
  IF userId = Undefined THEN Throw(d, "Not authenticated")
  ELSE IF id \notin DOMAIN d.budgetItems THEN Throw(d, "Budget item not found")
  ELSE IF d.budgetItems[id].createdBy # userId THEN Throw(d, "Not authorized")
  ELSE IF Cardinality(LinkedProjects(d.projects, id)) > 0
       THEN [Throw(d, "Cannot delete budget item with linked project(s)")
               EXCEPT !.ret = <<Cardinality(LinkedProjects(d.projects, id))>>]
  ELSE LET r == logBudgetActivity(d, userId, "deleted", id)
       IN IF r.ok
          THEN Ok([r.db EXCEPT !.budgetItems =
                     [x \in DOMAIN @ \ {id} |-> @[x]]], id)
          ELSE r

recalculateSingleBudgetItem(d, userId, b) ==
  IF userId = Undefined THEN Throw(d, "Not authenticated")
  ELSE recalculateBudgetItemMetrics(d, b, userId)

\* the ids in the order ctx.db.query("budgetItems").collect() returns them
RECURSIVE SortedSeq(_)
SortedSeq(S) == IF S = {} THEN <<>> ELSE <<Min(S)>> \o SortedSeq(S \ {Min(S)})

\* sequential loop: the first throw aborts, results accumulate in order
RECURSIVE recalculateMultipleBudgetItems(_, _, _, _)
recalculateMultipleBudgetItems(d, ids, userId, results) ==
  IF ids = <<>> THEN Ok(d, results)
  ELSE LET r == recalculateBudgetItemMetrics(d, Head(ids), userId)
       IN IF ~r.ok THEN r
          ELSE recalculateMultipleBudgetItems(r.db, Tail(ids), userId,
                 Append(results, [budgetItemId |-> Head(ids), result |-> r.ret]))

\* a recompute-all that stops after the first budget item
recalculateAllBudgetItemsFirstOnly(d, userId) ==
  LET ids == SortedSeq(DOMAIN d.budgetItems)
  IN recalculateMultipleBudgetItems(
       d, IF ids = <<>> THEN ids ELSE <<Head(ids)>>, userId, <<>>)

recalculateAllBudgetItems(d, userId) ==
  recalculateMultipleBudgetItems(d, SortedSeq(DOMAIN d.budgetItems), userId, <<>>)

recalculateAllMetrics(d, userId) ==
  IF userId = Undefined THEN Throw(d, "Not authenticated")
  ELSE recalculateAllBudgetItems(d, userId)

(* ---------------------------------------------------------------------- *)
(* lib/projectActivityLogger.ts                                            *)
(* ---------------------------------------------------------------------- *)
\* the fields of a projects document, in the order the handlers write them
ProjectKeys == <<"particulars", "projectName", "budgetItemId",
                 "totalBudgetAllocated", "obligatedBudget",
                 "totalBudgetUtilized", "utilizationRate", "projectCompleted",
                 "projectDelayed", "projectsOnTrack", "status", "createdBy",
                 "updatedBy", "isDeleted", "deletedBy">>
StringKeys == {"particulars", "projectName", "status", "isDeleted"}
\* keys the diff skips (_id and the timestamps are not modelled)
IgnoredKeys == {"_id", "_creationTime", "updatedAt", "updatedBy", "createdAt",
                "createdBy"}

\* an absent property: Object.keys does not list it, JSON.stringify drops it
IsAbsent(doc, k) ==
  IF k = "utilizationRate" THEN FALSE
  ELSE IF k \in StringKeys THEN doc[k] = UndefinedStr
  ELSE doc[k] = Undefined

\* JSON.stringify(pVal) !== JSON.stringify(nVal) on scalar values
Differs(prev, new, k) == prev[k] # new[k]

\* a diff without the ignore list
ChangedFieldsOfEveryKey(prev, new) ==
  SelectSeq(ProjectKeys,
    LAMBDA k : /\ ~(IsAbsent(prev, k) /\ IsAbsent(new, k))
               /\ Differs(prev, new, k))

\* for (const key of allKeys) ... changedFields.push(key)
ChangedFields(prev, new) ==
  SelectSeq(ProjectKeys,
    LAMBDA k : /\ ~(IsAbsent(prev, k) /\ IsAbsent(new, k))
               /\ k \notin IgnoredKeys
               /\ Differs(prev, new, k))

InSeq(x, s) == \E i \in 1..Len(s) : s[i] = x

NoSummary == [budgetChanged |-> FALSE, oldBudget |-> Undefined,
              newBudget |-> Undefined]

ChangeSummary(prev, new, changed) ==
  IF InSeq("totalBudgetAllocated", changed)
  THEN [budgetChanged |-> TRUE, oldBudget |-> prev.totalBudgetAllocated,
        newBudget |-> new.totalBudgetAllocated]
  ELSE NoSummary

\* a logger that writes nothing for a user it does not find
logProjectActivityBestEffort(d, userId, config) ==
  IF userId \notin DOMAIN users THEN Ok(d, <<>>)
  ELSE LET both == /\ config.action = "updated"
                   /\ config.previousValues # <<>>
                   /\ config.newValues # <<>>
           changed == IF both
                      THEN ChangedFields(config.previousValues[1],
                                         config.newValues[1])
                      ELSE <<>>
           summary == IF both
                      THEN ChangeSummary(config.previousValues[1],
                                         config.newValues[1], changed)
                      ELSE NoSummary
           projectData == IF config.newValues # <<>> THEN config.newValues[1]
                          ELSE config.previousValues[1]
       IN Ok([d EXCEPT !.projectActivities =
                Append(@, [action |-> config.action,
                           projectId |-> config.projectId,
                           particulars |->
                             IF projectData.particulars = UndefinedStr
                             THEN "Unknown Project"
                             ELSE projectData.particulars,
                           budgetItemId |-> projectData.budgetItemId,
                           previousValues |-> config.previousValues,
                           newValues |-> config.newValues,
                           changedFields |-> changed,
                           changeSummary |-> summary,
                           performedBy |-> userId,
                           performedByRole |-> users[userId].role,
                           reason |-> config.reason])], <<>>)

\* config.previousValues / config.newValues are <<>> when not supplied
logProjectActivity(d, userId, config) ==
  IF userId \notin DOMAIN users THEN Throw(d, "User not found for logging")
  ELSE LET both == /\ config.action = "updated"
                   /\ config.previousValues # <<>>
                   /\ config.newValues # <<>>
           changed == IF both
                      THEN ChangedFields(config.previousValues[1],
                                         config.newValues[1])
                      ELSE <<>>
           summary == IF both
                      THEN ChangeSummary(config.previousValues[1],
                                         config.newValues[1], changed)
                      ELSE NoSummary
           projectData == IF config.newValues # <<>> THEN config.newValues[1]
                          ELSE config.previousValues[1]
       IN Ok([d EXCEPT !.projectActivities =
                Append(@, [action |-> config.action,
                           projectId |-> config.projectId,
                           particulars |->
                             IF projectData.particulars = UndefinedStr
                             THEN "Unknown Project"
                             ELSE projectData.particulars,
                           budgetItemId |-> projectData.budgetItemId,
                           previousValues |-> config.previousValues,
                           newValues |-> config.newValues,
                           changedFields |-> changed,
                           changeSummary |-> summary,
                           performedBy |-> userId,
                           performedByRole |-> users[userId].role,
                           reason |-> config.reason])], <<>>)

(* ---------------------------------------------------------------------- *)
(* projects.ts                                                             *)
(* ---------------------------------------------------------------------- *)
\* query("govtProjectBreakdowns").withIndex("projectId", eq).collect()
BreakdownsOf(Bd, p) == {b \in DOMAIN Bd : Bd[b].projectId = p}

\* the optional recompute of a parent: skipped when the id is absent
RecalculateParent(d, b, userId) ==
  IF b = Undefined THEN Ok(d, <<>>) ELSE recalculateBudgetItemMetrics(d, b, userId)

\* the document projects.create inserts
NewProjectDoc(args, userId) ==
  [particulars |-> args.particulars,
   projectName |-> UndefinedStr,
   budgetItemId |-> args.budgetItemId,
   totalBudgetAllocated |-> args.totalBudgetAllocated,
   obligatedBudget |-> args.obligatedBudget,
   totalBudgetUtilized |-> args.totalBudgetUtilized,
   utilizationRate |-> UtilizationRate(args.totalBudgetUtilized,
                                       args.totalBudgetAllocated),
   projectCompleted |-> 0,
   projectDelayed |-> 0,
   projectsOnTrack |-> 0,
   status |-> "ongoing",
   createdBy |-> userId,
   updatedBy |-> Undefined,
   isDeleted |-> "false",
   deletedBy |-> Undefined]

projectsCreate(d, userId, args) ==
  IF userId = Undefined THEN Throw(d, "Not authenticated")
  ELSE IF args.budgetItemId # Undefined /\ args.budgetItemId \notin DOMAIN d.budgetItems
       THEN Throw(d, "Budget item not found")
  ELSE LET id == d.nextId.projects
           doc == NewProjectDoc(args, userId)
           d1 == [d EXCEPT !.projects = (id :> doc) @@ @,
                           !.nextId.projects = id + 1]
           r1 == logProjectActivity(d1, userId,
                   [action |-> "created", projectId |-> id,
                    previousValues |-> <<>>, newValues |-> <<doc>>,
                    reason |-> "New project creation"])
           r2 == RecalculateParent(r1.db, args.budgetItemId, userId)
       IN IF ~r1.ok THEN r1
          ELSE IF ~r2.ok THEN r2
          ELSE Ok(r2.db, id)

\* an update that recomputes the new parent alone
projectsUpdateNewParentOnly(d, userId, id, args) ==
  IF userId = Undefined THEN Throw(d, "Not authenticated")
  ELSE IF id \notin DOMAIN d.projects THEN Throw(d, "Project not found")
  ELSE IF args.budgetItemId # Undefined /\ args.budgetItemId \notin DOMAIN d.budgetItems
       THEN Throw(d, "Budget item not found")
  ELSE LET existing == d.projects[id]
           updatedProject ==
             [existing EXCEPT !.particulars = args.particulars,
                              !.budgetItemId = args.budgetItemId,
                              !.totalBudgetAllocated = args.totalBudgetAllocated,
                              !.obligatedBudget = args.obligatedBudget,
                              !.totalBudgetUtilized = args.totalBudgetUtilized,
                              !.utilizationRate =
                                 UtilizationRate(args.totalBudgetUtilized,
                                                 args.totalBudgetAllocated),
                              !.updatedBy = userId]
           d1 == [d EXCEPT !.projects[id] = updatedProject]
           r1 == logProjectActivity(d1, userId,
                   [action |-> "updated", projectId |-> id,
                    previousValues |-> <<existing>>,
                    newValues |-> <<updatedProject>>,
                    reason |-> args.reason])
           r3 == RecalculateParent(r1.db, args.budgetItemId, userId)
       IN IF ~r1.ok THEN r1
          ELSE IF ~r3.ok THEN r3
          ELSE Ok(r3.db, id)

projectsUpdate(d, userId, id, args) ==
  IF userId = Undefined THEN Throw(d, "Not authenticated")
  ELSE IF id \notin DOMAIN d.projects THEN Throw(d, "Project not found")
  ELSE IF args.budgetItemId # Undefined /\ args.budgetItemId \notin DOMAIN d.budgetItems
       THEN Throw(d, "Budget item not found")
  ELSE LET existing == d.projects[id]
           oldBudgetItemId == existing.budgetItemId
           updatedProject ==
             [existing EXCEPT !.particulars = args.particulars,
                              !.budgetItemId = args.budgetItemId,
                              !.totalBudgetAllocated = args.totalBudgetAllocated,
                              !.obligatedBudget = args.obligatedBudget,
                              !.totalBudgetUtilized = args.totalBudgetUtilized,
                              !.utilizationRate =
                                 UtilizationRate(args.totalBudgetUtilized,
                                                 args.totalBudgetAllocated),
                              !.updatedBy = userId]
           d1 == [d EXCEPT !.projects[id] = updatedProject]
           r1 == logProjectActivity(d1, userId,
                   [action |-> "updated", projectId |-> id,
                    previousValues |-> <<existing>>,
                    newValues |-> <<updatedProject>>,
                    reason |-> args.reason])
           r2 == IF oldBudgetItemId # Undefined /\ oldBudgetItemId # args.budgetItemId
                 THEN recalculateBudgetItemMetrics(r1.db, oldBudgetItemId, userId)
                 ELSE Ok(r1.db, <<>>)
           r3 == RecalculateParent(r2.db, args.budgetItemId, userId)
       IN IF ~r1.ok THEN r1
          ELSE IF ~r2.ok THEN r2
          ELSE IF ~r3.ok THEN r3
          ELSE Ok(r3.db, id)

\* a cascade that does not use the projectId index
TrashEveryBreakdown(Bd, p, userId) ==
  [b \in DOMAIN Bd |-> [Bd[b] EXCEPT !.isDeleted = "true", !.deletedBy = userId]]

\* for (const breakdown of breakdowns) patch(isDeleted: true, deletedBy)
TrashBreakdowns(Bd, p, userId) ==
  [b \in DOMAIN Bd |->
     IF b \in BreakdownsOf(Bd, p)
     THEN [Bd[b] EXCEPT !.isDeleted = "true", !.deletedBy = userId]
     ELSE Bd[b]]

\* a trash that leaves no entry in the activity log
moveToTrashUnlogged(d, userId, id, reason) ==
  IF userId = Undefined THEN Throw(d, "Not authenticated")
  ELSE IF id \notin DOMAIN d.projects THEN Throw(d, "Project not found")
  ELSE LET existing == d.projects[id]
           d1 == [d EXCEPT !.projects[id] =
                    [@ EXCEPT !.isDeleted = "true", !.deletedBy = userId,
                              !.updatedBy = userId]]
           d2 == [d1 EXCEPT !.breakdowns = TrashBreakdowns(@, id, userId)]
           r1 == RecalculateParent(d2, existing.budgetItemId, userId)
           r2 == Ok(r1.db, <<>>)
       IN IF ~r1.ok THEN r1
          ELSE IF ~r2.ok THEN r2
          ELSE Ok(r2.db, [success |-> TRUE])

\* a trash that recomputes the parent from the projects as they were before
\* its own write
moveToTrashRecomputeFirst(d, userId, id, reason) ==
  IF userId = Undefined THEN Throw(d, "Not authenticated")
  ELSE IF id \notin DOMAIN d.projects THEN Throw(d, "Project not found")
  ELSE LET existing == d.projects[id]
           r1 == RecalculateParent(d, existing.budgetItemId, userId)
           d1 == [r1.db EXCEPT !.projects[id] =
                    [@ EXCEPT !.isDeleted = "true", !.deletedBy = userId,
                              !.updatedBy = userId]]
           d2 == [d1 EXCEPT !.breakdowns = TrashBreakdowns(@, id, userId)]
           r2 == logProjectActivity(d2, userId,
                   [action |-> "updated", projectId |-> id,
                    previousValues |-> <<existing>>,
                    newValues |-> <<[existing EXCEPT !.isDeleted = "true"]>>,
                    reason |-> IF reason = UndefinedStr THEN "Moved to trash"
                               ELSE reason])
       IN IF ~r1.ok THEN r1
          ELSE IF ~r2.ok THEN r2
          ELSE Ok(r2.db, [success |-> TRUE])

moveToTrash(d, userId, id, reason) ==
  IF userId = Undefined THEN Throw(d, "Not authenticated")
  ELSE IF id \notin DOMAIN d.projects THEN Throw(d, "Project not found")
  ELSE LET existing == d.projects[id]
           d1 == [d EXCEPT !.projects[id] =
                    [@ EXCEPT !.isDeleted = "true", !.deletedBy = userId,
                              !.updatedBy = userId]]
           d2 == [d1 EXCEPT !.breakdowns = TrashBreakdowns(@, id, userId)]
           r1 == RecalculateParent(d2, existing.budgetItemId, userId)
           r2 == logProjectActivity(r1.db, userId,
                   [action |-> "updated", projectId |-> id,
                    previousValues |-> <<existing>>,
                    newValues |-> <<[existing EXCEPT !.isDeleted = "true"]>>,
                    reason |-> IF reason = UndefinedStr THEN "Moved to trash"
                               ELSE reason])
       IN IF ~r1.ok THEN r1
          ELSE IF ~r2.ok THEN r2
          ELSE Ok(r2.db, [success |-> TRUE])

\* for (const breakdown of breakdowns) if (breakdown.isDeleted) patch(...)
RestoreBreakdowns(Bd, p) ==
  [b \in DOMAIN Bd |->
     IF b \in BreakdownsOf(Bd, p) /\ Bd[b].isDeleted = "true"
     THEN [Bd[b] EXCEPT !.isDeleted = "false", !.deletedBy = Undefined]
     ELSE Bd[b]]

\* a restore without step 3, the recompute of the parent
restoreFromTrashNoRecompute(d, userId, id) ==
  IF userId = Undefined THEN Throw(d, "Not authenticated")
  ELSE IF id \notin DOMAIN d.projects THEN Throw(d, "Project not found")
  ELSE LET d1 == [d EXCEPT !.projects[id] =
                    [@ EXCEPT !.isDeleted = "false", !.deletedBy = Undefined]]
       IN Ok([d1 EXCEPT !.breakdowns = RestoreBreakdowns(@, id)],
             [success |-> TRUE])

restoreFromTrash(d, userId, id) ==
  IF userId = Undefined THEN Throw(d, "Not authenticated")
  ELSE IF id \notin DOMAIN d.projects THEN Throw(d, "Project not found")
  ELSE LET existing == d.projects[id]
           d1 == [d EXCEPT !.projects[id] =
                    [@ EXCEPT !.isDeleted = "false", !.deletedBy = Undefined]]
           d2 == [d1 EXCEPT !.breakdowns = RestoreBreakdowns(@, id)]
           r1 == RecalculateParent(d2, existing.budgetItemId, userId)
       IN IF ~r1.ok THEN r1
          ELSE Ok(r1.db, [success |-> TRUE])

\* a hard delete without the creator-or-super_admin check
projectsRemoveUnchecked(d, userId, id, reason) ==
  IF userId = Undefined THEN Throw(d, "Not authenticated")
  ELSE IF userId \notin DOMAIN users THEN Throw(d, "User not found")
  ELSE IF id \notin DOMAIN d.projects THEN Throw(d, "Project not found")
  ELSE LET existing == d.projects[id]
           d1 == [d EXCEPT !.breakdowns =
                    [b \in DOMAIN @ \ BreakdownsOf(@, id) |-> @[b]]]
           r1 == logProjectActivity(d1, userId,
                   [action |-> "deleted", projectId |-> id,
                    previousValues |-> <<existing>>, newValues |-> <<>>,
                    reason |-> IF reason = UndefinedStr THEN "Permanent Delete"
                               ELSE reason])
           d2 == [r1.db EXCEPT !.projects = [x \in DOMAIN @ \ {id} |-> @[x]]]
           r2 == RecalculateParent(d2, existing.budgetItemId, userId)
       IN IF ~r1.ok THEN r1
          ELSE IF ~r2.ok THEN r2
          ELSE Ok(r2.db, [success |-> TRUE])

\* a hard delete that recomputes the parent before the project row is gone
projectsRemoveRecomputeFirst(d, userId, id, reason) ==
  IF userId = Undefined THEN Throw(d, "Not authenticated")
  ELSE IF userId \notin DOMAIN users THEN Throw(d, "User not found")
  ELSE IF id \notin DOMAIN d.projects THEN Throw(d, "Project not found")
  ELSE IF d.projects[id].createdBy # userId /\ users[userId].role # "super_admin"
       THEN Throw(d, "Not authorized")
  ELSE LET existing == d.projects[id]
           d1 == [d EXCEPT !.breakdowns =
                    [b \in DOMAIN @ \ BreakdownsOf(@, id) |-> @[b]]]
           r1 == logProjectActivity(d1, userId,
                   [action |-> "deleted", projectId |-> id,
                    previousValues |-> <<existing>>, newValues |-> <<>>,
                    reason |-> IF reason = UndefinedStr THEN "Permanent Delete"
                               ELSE reason])
           r2 == RecalculateParent(r1.db, existing.budgetItemId, userId)
       IN IF ~r1.ok THEN r1
          ELSE IF ~r2.ok THEN r2
          ELSE Ok([r2.db EXCEPT !.projects = [x \in DOMAIN @ \ {id} |-> @[x]]],
                  [success |-> TRUE])

\* a hard delete without the cascade to the breakdowns
projectsRemoveKeepingChildren(d, userId, id, reason) ==
  IF userId = Undefined THEN Throw(d, "Not authenticated")
  ELSE IF userId \notin DOMAIN users THEN Throw(d, "User not found")
  ELSE IF id \notin DOMAIN d.projects THEN Throw(d, "Project not found")
  ELSE IF d.projects[id].createdBy # userId /\ users[userId].role # "super_admin"
       THEN Throw(d, "Not authorized")
  ELSE LET existing == d.projects[id]
           d1 == d
           r1 == logProjectActivity(d1, userId,
                   [action |-> "deleted", projectId |-> id,
                    previousValues |-> <<existing>>, newValues |-> <<>>,
                    reason |-> IF reason = UndefinedStr THEN "Permanent Delete"
                               ELSE reason])
           d2 == [r1.db EXCEPT !.projects = [x \in DOMAIN @ \ {id} |-> @[x]]]
           r2 == RecalculateParent(d2, existing.budgetItemId, userId)
       IN IF ~r1.ok THEN r1
          ELSE IF ~r2.ok THEN r2
          ELSE Ok(r2.db, [success |-> TRUE])

projectsRemove(d, userId, id, reason) ==
  IF userId = Undefined THEN Throw(d, "Not authenticated")
  ELSE IF userId \notin DOMAIN users THEN Throw(d, "User not found")
  ELSE IF id \notin DOMAIN d.projects THEN Throw(d, "Project not found")
  ELSE IF d.projects[id].createdBy # userId /\ users[userId].role # "super_admin"
       THEN Throw(d, "Not authorized")
  ELSE LET existing == d.projects[id]
           d1 == [d EXCEPT !.breakdowns =
                    [b \in DOMAIN @ \ BreakdownsOf(@, id) |-> @[b]]]
           r1 == logProjectActivity(d1, userId,
                   [action |-> "deleted", projectId |-> id,
                    previousValues |-> <<existing>>, newValues |-> <<>>,
                    reason |-> IF reason = UndefinedStr THEN "Permanent Delete"
                               ELSE reason])
           d2 == [r1.db EXCEPT !.projects = [x \in DOMAIN @ \ {id} |-> @[x]]]
           r2 == RecalculateParent(d2, existing.budgetItemId, userId)
       IN IF ~r1.ok THEN r1
          ELSE IF ~r2.ok THEN r2
          ELSE Ok(r2.db, [success |-> TRUE])

(* ---------------------------------------------------------------------- *)
(* lib/projectAggregation.ts                                               *)
(* ---------------------------------------------------------------------- *)
\* query("govtProjectBreakdowns").withIndex("projectId").filter(neq(isDeleted, true))
ActiveBreakdownsOf(Bd, p) ==
  {b \in DOMAIN Bd : Bd[b].projectId = p /\ Bd[b].isDeleted # "true"}

\* breakdowns.reduce(...): strict comparison with the lowercase literals
RECURSIVE CountBreakdowns(_, _, _)
CountBreakdowns(Bd, S, acc) ==
  IF S = {} THEN acc
  ELSE LET b == Min(S)
           st == Bd[b].status
       IN CountBreakdowns(Bd, S \ {b},
            IF st = "completed" THEN [acc EXCEPT !.completed = @ + 1]
            ELSE IF st = "delayed" THEN [acc EXCEPT !.delayed = @ + 1]
            ELSE IF st = "ongoing" THEN [acc EXCEPT !.onTrack = @ + 1]
            ELSE acc)

\* the value recalculateProjectMetrics computes (and returns)
ProjectMetrics(d, p) ==
  LET S == ActiveBreakdownsOf(d.breakdowns, p)
      agg == CountBreakdowns(d.breakdowns, S,
               [completed |-> 0, delayed |-> 0, onTrack |-> 0])
  IN IF Cardinality(S) = 0
     THEN [breakdownsCount |-> 0, completed |-> 0, delayed |-> 0,
           onTrack |-> 0, status |-> "ongoing"]
     ELSE [breakdownsCount |-> Cardinality(S), completed |-> agg.completed,
           delayed |-> agg.delayed, onTrack |-> agg.onTrack,
           status |-> DeriveStatus(agg.completed, agg.delayed, agg.onTrack)]

\* a patch that also resets the project's own spending
PatchProjectMetricsResettingSpending(doc, m, userId) ==
  [doc EXCEPT !.projectCompleted = m.completed,
              !.projectDelayed = m.delayed,
              !.projectsOnTrack = m.onTrack,
              !.status = m.status,
              !.totalBudgetUtilized = 0,
              !.updatedBy = userId]

\* the ctx.db.patch of recalculateProjectMetrics (same fields in both branches)
PatchProjectMetrics(doc, m, userId) ==
  [doc EXCEPT !.projectCompleted = m.completed,
              !.projectDelayed = m.delayed,
              !.projectsOnTrack = m.onTrack,
              !.status = m.status,
              !.updatedBy = userId]

\* throw new Error(`Project ${projectId} not found`)
ProjectNotFound(p) == "Project " \o ToString(p) \o " not found"

\* a project recompute that recomputes the parent before it patches the project
recalculateProjectMetricsParentFirst(d, p, userId) ==
  IF p \notin DOMAIN d.projects THEN Throw(d, ProjectNotFound(p))
  ELSE LET project == d.projects[p]
           m == ProjectMetrics(d, p)
           r == RecalculateParent(d, project.budgetItemId, userId)
       IN IF ~r.ok THEN r
          ELSE Ok([r.db EXCEPT !.projects[p] = PatchProjectMetrics(@, m, userId)],
                  m)

recalculateProjectMetrics(d, p, userId) ==
  IF p \notin DOMAIN d.projects THEN Throw(d, ProjectNotFound(p))
  ELSE LET project == d.projects[p]
           m == ProjectMetrics(d, p)
           d1 == [d EXCEPT !.projects[p] = PatchProjectMetrics(@, m, userId)]
           r == RecalculateParent(d1, project.budgetItemId, userId)
       IN IF ~r.ok THEN r ELSE Ok(r.db, m)

\* a loop over the ids that passes over the ones it does not find
RECURSIVE recalculateMultipleProjectsSkippingMissing(_, _, _, _)
recalculateMultipleProjectsSkippingMissing(d, ids, userId, results) ==
  IF ids = <<>> THEN Ok(d, results)
  ELSE LET r == recalculateProjectMetrics(d, Head(ids), userId)
       IN IF ~r.ok
          THEN recalculateMultipleProjectsSkippingMissing(d, Tail(ids), userId,
                                                          results)
          ELSE recalculateMultipleProjectsSkippingMissing(r.db, Tail(ids), userId,
                 Append(results, [projectId |-> Head(ids), result |-> r.ret]))

\* sequential loop: the first throw aborts, results accumulate in order
RECURSIVE recalculateMultipleProjects(_, _, _, _)
recalculateMultipleProjects(d, ids, userId, results) ==
  IF ids = <<>> THEN Ok(d, results)
  ELSE LET r == recalculateProjectMetrics(d, Head(ids), userId)
       IN IF ~r.ok THEN r
          ELSE recalculateMultipleProjects(r.db, Tail(ids), userId,
                 Append(results, [projectId |-> Head(ids), result |-> r.ret]))

(* ---------------------------------------------------------------------- *)
(* govtProjects.ts                                                         *)
(* ---------------------------------------------------------------------- *)
StatusCategories == {"implementation", "completed"}
\* reports of finished work only
CompletedReports == {c \in StatusCategories : c = "completed"}

\* statusCategory -> the status of a project the report creates
MainStatus(statusCategory) ==
  IF statusCategory = "cancelled" THEN "cancelled"
  ELSE IF statusCategory = "suspended" THEN "on_hold"
  ELSE IF statusCategory = "completed" THEN "completed"
  ELSE "on_track"

\* query("projects").withIndex("projectName", eq).first()
ProjectsNamed(P, name) == {p \in DOMAIN P : P[p].projectName = name}

\* the govtProjectBreakdowns document logProjectReport inserts
NewReportBreakdown(projectId, statusCategory, userId) ==
  [projectId |-> projectId,
   status |-> UndefinedStr,
   statusCategory |-> statusCategory,
   isDeleted |-> UndefinedStr,
   deletedBy |-> Undefined,
   createdBy |-> userId,
   updatedBy |-> Undefined]

logProjectReport(d, userId, args) ==
  IF userId = Undefined THEN Throw(d, "Not authenticated")
  ELSE LET found == ProjectsNamed(d.projects, args.projectName)
           projectId == IF found # {} THEN Min(found) ELSE d.nextId.projects
           doc == [particulars |-> UndefinedStr,
                   projectName |-> args.projectName,
                   budgetItemId |-> Undefined,
                   totalBudgetAllocated |-> Undefined,
                   obligatedBudget |-> Undefined,
                   totalBudgetUtilized |-> 0,
                   utilizationRate |-> <<0, 1>>,
                   projectCompleted |-> Undefined,
                   projectDelayed |-> Undefined,
                   projectsOnTrack |-> Undefined,
                   status |-> MainStatus(args.statusCategory),
                   createdBy |-> userId,
                   updatedBy |-> Undefined,
                   isDeleted |-> UndefinedStr,
                   deletedBy |-> Undefined]
           d1 == IF found # {}
                 THEN [d EXCEPT !.projects[projectId].updatedBy = userId]
                 ELSE [d EXCEPT !.projects = (projectId :> doc) @@ @,
                                !.nextId.projects = projectId + 1]
           breakdownId == d.nextId.breakdowns
           breakdown == NewReportBreakdown(projectId, args.statusCategory, userId)
       IN Ok([d1 EXCEPT !.breakdowns = (breakdownId :> breakdown) @@ @,
                        !.nextId.breakdowns = breakdownId + 1],
             [projectId |-> projectId, breakdownId |-> breakdownId])

\* statusValidator
BreakdownStatuses == {"Completed", "On-Going", "On-Hold", "Cancelled", "Delayed"}

\* the bulk logger of lib/govtProjectActivityLogger.ts: one generated batch
\* id, one entry per record handed over, in the order of the records
NewBatchId(log) ==
  1 + Cardinality({log[i].batchId : i \in 1..Len(log)})

RECURSIVE BulkEntries(_, _, _, _, _)
BulkEntries(records, userId, action, reason, batchId) ==
  IF records = <<>> THEN <<>>
  ELSE <<[action |-> action,
          breakdownId |-> Head(records).breakdownId,
          previousValues |-> Head(records).previousValues,
          newValues |-> Head(records).newValues,
          performedBy |-> userId,
          reason |-> reason,
          batchId |-> batchId,
          isReviewed |-> UndefinedStr,
          reviewedBy |-> Undefined,
          reviewNotes |-> UndefinedStr]>>
       \o BulkEntries(Tail(records), userId, action, reason, batchId)

logBulkGovtProjectActivity(d, userId, action, records, reason) ==
  LET batchId == NewBatchId(d.breakdownActivities)
  IN Ok([d EXCEPT !.breakdownActivities =
           @ \o BulkEntries(records, userId, action, reason, batchId)],
        batchId)

\* a bulk update that gives up at the first breakdown it does not find
RECURSIVE UpdateEachOrThrow(_, _, _, _)
UpdateEachOrThrow(d, userId, updates, updatedRecords) ==
  IF updates = <<>> THEN [Ok(d, <<>>) EXCEPT !.ret = updatedRecords]
  ELSE LET breakdownId == Head(updates).breakdownId
       IN IF breakdownId \notin DOMAIN d.breakdowns
          THEN Throw(d, "Breakdown not found")
          ELSE LET previousBreakdown == d.breakdowns[breakdownId]
                   updatedBreakdown ==
                     [previousBreakdown EXCEPT
                        !.status = IF Head(updates).status = UndefinedStr
                                   THEN @ ELSE Head(updates).status,
                        !.updatedBy = userId]
               IN UpdateEachOrThrow(
                    [d EXCEPT !.breakdowns[breakdownId] = updatedBreakdown],
                    userId, Tail(updates),
                    Append(updatedRecords,
                           [breakdownId |-> breakdownId,
                            previousValues |-> <<previousBreakdown>>,
                            newValues |-> <<updatedBreakdown>>]))

\* for (const update of args.updates) { ... }
RECURSIVE UpdateEach(_, _, _, _)
UpdateEach(d, userId, updates, updatedRecords) ==
  IF updates = <<>> THEN [Ok(d, <<>>) EXCEPT !.ret = updatedRecords]
  ELSE LET breakdownId == Head(updates).breakdownId
       IN IF breakdownId \notin DOMAIN d.breakdowns
          THEN UpdateEach(d, userId, Tail(updates), updatedRecords)
          ELSE LET previousBreakdown == d.breakdowns[breakdownId]
                   updatedBreakdown ==
                     [previousBreakdown EXCEPT
                        !.status = IF Head(updates).status = UndefinedStr
                                   THEN @ ELSE Head(updates).status,
                        !.updatedBy = userId]
               IN UpdateEach(
                    [d EXCEPT !.breakdowns[breakdownId] = updatedBreakdown],
                    userId, Tail(updates),
                    Append(updatedRecords,
                           [breakdownId |-> breakdownId,
                            previousValues |-> <<previousBreakdown>>,
                            newValues |-> <<updatedBreakdown>>]))

RecordIds(records) == [i \in 1..Len(records) |-> records[i].breakdownId]

bulkUpdateBreakdowns(d, userId, args) ==
  IF userId = Undefined THEN Throw(d, "Not authenticated")
  ELSE LET r1 == UpdateEach(d, userId, args.updates, <<>>)
           r2 == logBulkGovtProjectActivity(r1.db, userId, "bulk_updated", r1.ret,
                   IF args.reason = UndefinedStr THEN "Bulk update"
                   ELSE args.reason)
       IN IF ~r1.ok THEN r1
          ELSE IF ~r2.ok THEN r2
          ELSE Ok(r2.db, [count |-> Len(r1.ret), ids |-> RecordIds(r1.ret),
                          batchId |-> r2.ret])

\* for (const breakdownId of args.breakdownIds) { ... }
RECURSIVE DeleteEach(_, _, _)
DeleteEach(d, breakdownIds, deletedRecords) ==
  IF breakdownIds = <<>> THEN [Ok(d, <<>>) EXCEPT !.ret = deletedRecords]
  ELSE LET breakdownId == Head(breakdownIds)
       IN IF breakdownId \notin DOMAIN d.breakdowns
          THEN DeleteEach(d, Tail(breakdownIds), deletedRecords)
          ELSE DeleteEach(
                 [d EXCEPT !.breakdowns =
                    [x \in DOMAIN @ \ {breakdownId} |-> @[x]]],
                 Tail(breakdownIds),
                 Append(deletedRecords,
                        [breakdownId |-> breakdownId,
                         previousValues |-> <<d.breakdowns[breakdownId]>>,
                         newValues |-> <<>>]))

bulkDeleteBreakdowns(d, userId, args) ==
  IF userId = Undefined THEN Throw(d, "Not authenticated")
  ELSE LET r1 == DeleteEach(d, args.breakdownIds, <<>>)
           r2 == logBulkGovtProjectActivity(r1.db, userId, "bulk_deleted", r1.ret,
                   IF args.reason = UndefinedStr THEN "Bulk deletion"
                   ELSE args.reason)
       IN Ok(r2.db, [count |-> Len(r1.ret), ids |-> RecordIds(r1.ret),
                     batchId |-> r2.ret])

(* ---------------------------------------------------------------------- *)
(* schema/media.ts: review of a breakdown activity.  An activity's id is   *)
(* its position in the log.                                                *)
(* ---------------------------------------------------------------------- *)
\* a review that also rewrites the entry's reason
reviewActivityRewritingReason(d, userId, activityId, reviewNotes) ==
  IF userId = Undefined THEN Throw(d, "Not authenticated")
  ELSE IF \/ userId \notin DOMAIN users
          \/ users[userId].role \notin {"super_admin", "admin"}
       THEN Throw(d, "Not authorized - administrator access required")
  ELSE IF activityId \notin DOMAIN d.breakdownActivities
       THEN Throw(d, "Update on nonexistent document")
  ELSE Ok([d EXCEPT !.breakdownActivities[activityId] =
             [@ EXCEPT !.isReviewed = "true",
                       !.reviewedBy = userId,
                       !.reviewNotes = reviewNotes,
                       !.reason = reviewNotes]],
          [success |-> TRUE])

reviewActivity(d, userId, activityId, reviewNotes) ==
  IF userId = Undefined THEN Throw(d, "Not authenticated")
  ELSE IF \/ userId \notin DOMAIN users
          \/ users[userId].role \notin {"super_admin", "admin"}
       THEN Throw(d, "Not authorized - administrator access required")
  ELSE IF activityId \notin DOMAIN d.breakdownActivities
       THEN Throw(d, "Update on nonexistent document")
  ELSE Ok([d EXCEPT !.breakdownActivities[activityId] =
             [@ EXCEPT !.isReviewed = "true",
                       !.reviewedBy = userId,
                       !.reviewNotes = reviewNotes]],
          [success |-> TRUE])

(* ---------------------------------------------------------------------- *)
(* Actions: one per exported mutation.  A call that returns is a Commit    *)
(* step; a call that throws is rolled back by Convex and is an Abort step  *)
(* of the specifications that look at failures.                            *)
(* ---------------------------------------------------------------------- *)
Commit(op, userId, id, r) ==
  /\ r.ok
  /\ budgetItems' = r.db.budgetItems
  /\ projects' = r.db.projects
  /\ breakdowns' = r.db.breakdowns
  /\ projectActivities' = r.db.projectActivities
  /\ budgetItemActivities' = r.db.budgetItemActivities
  /\ breakdownActivities' = r.db.breakdownActivities
  /\ nextId' = r.db.nextId
  /\ UNCHANGED <<users, tx>>
  /\ last' = [op |-> op, userId |-> userId, id |-> id, ret |-> r.ret,
              err |-> ""]

\* a call that throws: Convex rolls the transaction back, whatever the
\* handler wrote before the throw, and the caller gets the error
Abort(op, userId, id, r) ==
  /\ ~r.ok
  /\ UNCHANGED <<budgetItems, projects, breakdowns, projectActivities,
                 budgetItemActivities, breakdownActivities, nextId, users, tx>>
  /\ last' = [op |-> op, userId |-> userId, id |-> id, ret |-> r.ret,
              err |-> r.err]

\* activity entries written so far, over the three logs
Logged ==
  Len(projectActivities) + Len(budgetItemActivities) + Len(breakdownActivities)

\* ids a caller can pass: the ones handed out so far and one never handed out
BudgetItemIdArgs == 1..nextId.budgetItems
ProjectIdArgs == 1..nextId.projects

\* any budget item id, or none
AnyParent == BudgetItemIdArgs \cup {Undefined}
\* the first budget item
FirstParent == {1}

ProjectArgs(B, F) ==
  {[particulars |-> "P", budgetItemId |-> b,
    totalBudgetAllocated |-> f.totalBudgetAllocated,
    obligatedBudget |-> f.obligatedBudget,
    totalBudgetUtilized |-> f.totalBudgetUtilized, reason |-> f.reason] :
     b \in B, f \in F}

CreateBudgetItem(U, A) ==
  \E userId \in U, args \in A :
    /\ nextId.budgetItems <= MaxBudgetItems
    /\ Logged < MaxLog
    /\ Commit("budgetItems.create", userId, nextId.budgetItems,
              budgetItemsCreate(db, userId, args))

UpdateBudgetItem(U, A) ==
  \E userId \in U, id \in BudgetItemIdArgs, args \in A :
    /\ Logged < MaxLog
    /\ Commit("budgetItems.update", userId, id,
              budgetItemsUpdate(db, userId, id, args))

RemoveBudgetItem(U) ==
  \E userId \in U, id \in BudgetItemIdArgs :
    /\ Logged < MaxLog
    /\ Commit("budgetItems.remove", userId, id, budgetItemsRemove(db, userId, id))

RecalculateSingleBudgetItem(U) ==
  \E userId \in U, id \in BudgetItemIdArgs :
    Commit("budgetItems.recalculateSingleBudgetItem", userId, id,
           recalculateSingleBudgetItem(db, userId, id))

RecalculateAllMetrics(U) ==
  \E userId \in U :
    Commit("budgetItems.recalculateAllMetrics", userId, Undefined,
           recalculateAllMetrics(db, userId))

CreateProject(U, B, F) ==
  \E userId \in U, args \in ProjectArgs(B, F) :
    /\ nextId.projects <= MaxProjects
    /\ Logged < MaxLog
    /\ Commit("projects.create", userId, nextId.projects,
              projectsCreate(db, userId, args))

UpdateProject(U, B, F) ==
  \E userId \in U, id \in ProjectIdArgs, args \in ProjectArgs(B, F) :
    /\ Logged < MaxLog
    /\ Commit("projects.update", userId, id,
              projectsUpdate(db, userId, id, args))

MoveToTrash(U, R) ==
  \E userId \in U, id \in ProjectIdArgs, reason \in R :
    /\ Logged < MaxLog
    /\ Commit("projects.moveToTrash", userId, id,
              moveToTrash(db, userId, id, reason))

RestoreFromTrash(U) ==
  \E userId \in U, id \in ProjectIdArgs :
    Commit("projects.restoreFromTrash", userId, id,
           restoreFromTrash(db, userId, id))

RemoveProject(U, R) ==
  \E userId \in U, id \in ProjectIdArgs, reason \in R :
    /\ Logged < MaxLog
    /\ Commit("projects.remove", userId, id,
              projectsRemove(db, userId, id, reason))

LogProjectReportOf(U, N, C) ==
  \E userId \in U, name \in N, sc \in C :
    /\ nextId.breakdowns <= MaxBreakdowns
    /\ ProjectsNamed(projects, name) = {} => nextId.projects <= MaxProjects
    /\ Commit("govtProjects.logProjectReport", userId, nextId.breakdowns,
              logProjectReport(db, userId,
                [projectName |-> name, statusCategory |-> sc]))

LogProjectReport(U, C) == LogProjectReportOf(U, ProjectNames, C)

Init ==
  /\ budgetItems = EmptyTable
  /\ projects = EmptyTable
  /\ breakdowns = EmptyTable
  /\ projectActivities = <<>>
  /\ budgetItemActivities = <<>>
  /\ breakdownActivities = <<>>
  /\ users = RegisteredUsers
  /\ tx = Serializable
  /\ nextId = [budgetItems |-> 1, projects |-> 1, breakdowns |-> 1]
  /\ last = [op |-> "init", userId |-> Undefined, id |-> Undefined, ret |-> <<>>,
             err |-> ""]

\* the budget item and project mutations
Next ==
  \/ CreateBudgetItem(AdminSessions, BudgetItemArgs)
  \/ UpdateBudgetItem(AdminSessions, BudgetItemArgs)
  \/ RemoveBudgetItem(AdminSessions)
  \/ RecalculateSingleBudgetItem(AdminSessions)
  \/ RecalculateAllMetrics(AdminSessions)
  \/ CreateProject(AdminSessions, AnyParent, ProjectFinancials)
  \/ UpdateProject(AdminSessions, AnyParent, ProjectFinancials)
  \/ MoveToTrash(AdminSessions, NoReason)
  \/ RestoreFromTrash(AdminSessions)
  \/ RemoveProject(AdminSessions, NoReason)

Spec == Init /\ [][Next]_vars

\* the trash cascade over projects that reports gave breakdowns
NextTrash ==
  \/ CreateBudgetItem(AdminSessions, FundedBudgetItemArgs)
  \/ LogProjectReport(AdminSessions, CompletedReports)
  \/ UpdateProject(AdminSessions, FirstParent, SpentProjectFinancials)
  \/ MoveToTrash(AdminSessions, NoReason)
  \/ RestoreFromTrash(AdminSessions)

SpecTrash == Init /\ [][NextTrash]_vars

\* the hard delete of projects that have a parent, breakdowns, or both, in
\* the trash or outside it
NextRemove ==
  \/ CreateBudgetItem(AdminSessions, FundedBudgetItemArgs)
  \/ LogProjectReport(AdminSessions, CompletedReports)
  \/ UpdateProject(AdminSessions, FirstParent, SpentProjectFinancials)
  \/ MoveToTrash(AdminSessions, NoReason)
  \/ RemoveProject(AdminSessions, NoReason)

SpecRemove == Init /\ [][NextRemove]_vars

(* ---------------------------------------------------------------------- *)
(* Calls that throw.  The caller sees the error; the store is as before.   *)
(* ---------------------------------------------------------------------- *)
RejectRemoveBudgetItem(U) ==
  \E userId \in U, id \in BudgetItemIdArgs :
    Abort("budgetItems.remove", userId, id, budgetItemsRemove(db, userId, id))

RejectCreateProject(U, B, F) ==
  \E userId \in U, args \in ProjectArgs(B, F) :
    Abort("projects.create", userId, nextId.projects,
          projectsCreate(db, userId, args))

RejectUpdateProject(U, B, F) ==
  \E userId \in U, id \in ProjectIdArgs, args \in ProjectArgs(B, F) :
    Abort("projects.update", userId, id, projectsUpdate(db, userId, id, args))

RejectMoveToTrash(U, R) ==
  \E userId \in U, id \in ProjectIdArgs, reason \in R :
    Abort("projects.moveToTrash", userId, id, moveToTrash(db, userId, id, reason))

RejectRestoreFromTrash(U) ==
  \E userId \in U, id \in ProjectIdArgs :
    Abort("projects.restoreFromTrash", userId, id,
          restoreFromTrash(db, userId, id))

RejectRemoveProject(U, R) ==
  \E userId \in U, id \in ProjectIdArgs, reason \in R :
    Abort("projects.remove", userId, id, projectsRemove(db, userId, id, reason))

\* the project mutations and the removal of a budget item, by every kind of
\* caller, with the calls that throw as steps of their own
NextFail ==
  \/ CreateBudgetItem(AdminSessions, FundedBudgetItemArgs)
  \/ RemoveBudgetItem(AllSessions)
  \/ CreateProject(StaleSessions, AnyParent, SpentProjectFinancials)
  \/ UpdateProject(StaleSessions, FirstParent, SpentProjectFinancials)
  \/ MoveToTrash(StaleSessions, NoReason)
  \/ RestoreFromTrash(StaleSessions)
  \/ RemoveProject(StaleSessions, NoReason)
  \/ RejectRemoveBudgetItem(AllSessions)
  \/ RejectCreateProject(StaleSessions, AnyParent, SpentProjectFinancials)
  \/ RejectUpdateProject(StaleSessions, AnyParent, SpentProjectFinancials)
  \/ RejectMoveToTrash(StaleSessions, NoReason)
  \/ RejectRestoreFromTrash(StaleSessions)
  \/ RejectRemoveProject(StaleSessions, NoReason)

SpecFail == Init /\ [][NextFail]_vars

(* ---------------------------------------------------------------------- *)
(* The bulk mutations on breakdowns, over lists that name breakdowns that  *)
(* exist, that exist twice in the list, and that do not exist.             *)
(* ---------------------------------------------------------------------- *)
\* the ids a caller may pass: those of the stored breakdowns, and one that
\* names no breakdown
KnownBreakdownIds == DOMAIN breakdowns \cup {nextId.breakdowns}

ListsOf(S) == UNION {[1..n -> S] : n \in 1..MaxBulk}

\* update lists whose items alternate between two statuses, so that two
\* updates of one breakdown in one list differ
BulkUpdates ==
  {[i \in DOMAIN ids |->
      [breakdownId |-> ids[i],
       status |-> IF i % 2 = 1 THEN "Completed" ELSE "Delayed"]] :
     ids \in ListsOf(KnownBreakdownIds)}

BulkUpdateBreakdowns(U) ==
  \E userId \in U, updates \in BulkUpdates :
    /\ Len(breakdownActivities) + Len(updates) <= MaxBulk + 1
    /\ Commit("govtProjects.bulkUpdateBreakdowns", userId, updates,
              bulkUpdateBreakdowns(db, userId,
                [updates |-> updates, reason |-> UndefinedStr]))

BulkDeleteBreakdowns(U) ==
  \E userId \in U, breakdownIds \in ListsOf(KnownBreakdownIds) :
    /\ Len(breakdownActivities) + Len(breakdownIds) <= MaxBulk + 1
    /\ Commit("govtProjects.bulkDeleteBreakdowns", userId, breakdownIds,
              bulkDeleteBreakdowns(db, userId,
                [breakdownIds |-> breakdownIds, reason |-> UndefinedStr]))

\* a call without a session is refused before its list is read: one-item
\* lists stand for every list such a caller may pass
RejectBulkUpdateBreakdowns(U) ==
  \E userId \in U, updates \in BulkUpdates :
    /\ userId = Undefined => Len(updates) = 1
    /\ Abort("govtProjects.bulkUpdateBreakdowns", userId, updates,
             bulkUpdateBreakdowns(db, userId,
               [updates |-> updates, reason |-> UndefinedStr]))

RejectBulkDeleteBreakdowns(U) ==
  \E userId \in U, breakdownIds \in ListsOf(KnownBreakdownIds) :
    /\ userId = Undefined => Len(breakdownIds) = 1
    /\ Abort("govtProjects.bulkDeleteBreakdowns", userId, breakdownIds,
             bulkDeleteBreakdowns(db, userId,
               [breakdownIds |-> breakdownIds, reason |-> UndefinedStr]))

NextBulk ==
  \/ LogProjectReportOf(AdminSessions, {"P"}, CompletedReports)
  \/ BulkUpdateBreakdowns(AdminSessions)
  \/ BulkDeleteBreakdowns(AdminSessions)
  \/ RejectBulkUpdateBreakdowns(AdminSessions)
  \/ RejectBulkDeleteBreakdowns(AdminSessions)

SpecBulk == Init /\ [][NextBulk]_vars

(* ---------------------------------------------------------------------- *)
(* The activity logs under everything that happens after an entry is       *)
(* written: more mutations, the hard delete of the entry's target, a       *)
(* review, and a change of the actor's role.                               *)
(* ---------------------------------------------------------------------- *)
ReviewNotes == {"checked"}

ReviewActivity(U) ==
  \E userId \in U, activityId \in 1..(Len(breakdownActivities) + 1),
     reviewNotes \in ReviewNotes :
    Commit("activities.reviewActivity", userId, activityId,
           reviewActivity(db, userId, activityId, reviewNotes))

RejectReviewActivity(U) ==
  \E userId \in U, activityId \in 1..(Len(breakdownActivities) + 1),
     reviewNotes \in ReviewNotes :
    Abort("activities.reviewActivity", userId, activityId,
          reviewActivity(db, userId, activityId, reviewNotes))

\* the role of a user changes (user administration is outside these modules)
SetUserRole(U, Roles) ==
  \E userId \in U \cap DOMAIN users, role \in Roles :
    /\ users[userId].role # role
    /\ users' = [users EXCEPT ![userId].role = role]
    /\ UNCHANGED <<budgetItems, projects, breakdowns, projectActivities,
                   budgetItemActivities, breakdownActivities, nextId, tx>>
    /\ last' = [op |-> "users.setRole", userId |-> userId, id |-> Undefined,
                ret |-> <<>>, err |-> ""]

NextLog ==
  \/ CreateProject(AdminSessions, {Undefined}, SpentProjectFinancials)
  \/ RemoveProject(AdminSessions, NoReason)
  \/ LogProjectReportOf(AdminSessions, {"P"}, CompletedReports)
  \/ Logged + MaxBulk <= MaxLog /\ BulkDeleteBreakdowns(AdminSessions)
  \/ ReviewActivity(AdminSessions)
  \/ RejectReviewActivity(AdminSessions)
  \/ SetUserRole(AdminSessions, {"super_admin", "user"})

SpecLog == Init /\ [][NextLog]_vars

(* ---------------------------------------------------------------------- *)
(* The aggregators on their own: the two recompute functions applied to    *)
(* stores whose children take every value the aggregators distinguish.     *)
(* ---------------------------------------------------------------------- *)
\* the literals the aggregators compare a child's status with, and one other
ProjectStatuses == {"ongoing", "delayed", "completed", "on_track"}
DrawnBreakdownStatuses == {"ongoing", "delayed", "completed", "On-Hold"}

RecalculateProjectMetrics(U) ==
  \E userId \in U \ {Undefined}, id \in ProjectIdArgs :
    Commit("lib.recalculateProjectMetrics", userId, id,
           recalculateProjectMetrics(db, id, userId))

\* a project of budget item 1 (or of none), as created, with a given state
DrawnProject(parent, f, st, del) ==
  [NewProjectDoc([particulars |-> "P", budgetItemId |-> parent,
                  totalBudgetAllocated |-> f.totalBudgetAllocated,
                  obligatedBudget |-> f.obligatedBudget,
                  totalBudgetUtilized |-> f.totalBudgetUtilized], 1)
     EXCEPT !.status = st, !.isDeleted = del]

DrawnProjects ==
  {DrawnProject(parent, f, st, del) :
     parent \in {1, Undefined}, f \in ProjectFinancials,
     st \in ProjectStatuses, del \in {"false", "true"}}

\* a breakdown of project 1 or 2 with a status and a trash flag
DrawnBreakdowns ==
  {[NewReportBreakdown(p, "implementation", 1)
      EXCEPT !.status = st, !.isDeleted = del] :
     p \in 1..2, st \in DrawnBreakdownStatuses, del \in {UndefinedStr, "true"}}

\* project 1 (trashed or not, with or without a parent) and a sibling
BreakdownParents ==
  {(1 :> DrawnProject(parent, f, "ongoing", del))
     @@ (2 :> DrawnProject(1, f, st, "false")) :
     parent \in {1, Undefined}, del \in {"false", "true"},
     f \in SpentProjectFinancials, st \in ProjectStatuses}

Tables(n, Docs) == UNION {[1..k -> Docs] : k \in 0..n}

InitAgg ==
  /\ \E a \in BudgetItemArgs : budgetItems = (1 :> NewBudgetItemDoc(a, 1))
  /\ \/ /\ projects \in Tables(MaxProjects, DrawnProjects)
        /\ breakdowns = EmptyTable
     \/ /\ projects \in BreakdownParents
        /\ breakdowns \in Tables(MaxBreakdowns, DrawnBreakdowns)
  /\ projectActivities = <<>>
  /\ budgetItemActivities = <<>>
  /\ breakdownActivities = <<>>
  /\ users = RegisteredUsers
  /\ tx = Serializable
  /\ nextId = [budgetItems |-> 2,
               projects |-> Cardinality(DOMAIN projects) + 1,
               breakdowns |-> Cardinality(DOMAIN breakdowns) + 1]
  /\ last = [op |-> "init", userId |-> Undefined, id |-> Undefined, ret |-> <<>>,
             err |-> ""]

NextAgg ==
  \/ RecalculateSingleBudgetItem(AdminSessions)
  \/ RecalculateAllMetrics(AdminSessions)
  \/ RecalculateProjectMetrics(AdminSessions)

SpecAgg == InitAgg /\ [][NextAgg]_vars

(* ---------------------------------------------------------------------- *)
(* Properties.  What the derived fields should be is stated here over the  *)
(* tables themselves, without the aggregators' own loops.                  *)
(* ---------------------------------------------------------------------- *)
Trashed(doc) == doc.isDeleted = "true"

\* the projects that reference budget item b and are not soft-deleted
LiveProjects(P, b) == {p \in DOMAIN P : P[p].budgetItemId = b /\ ~Trashed(P[p])}
\* the breakdowns that reference project p and are not soft-deleted
LiveBreakdowns(Bd, p) == {c \in DOMAIN Bd : Bd[c].projectId = p /\ ~Trashed(Bd[c])}

\* sum of a numeric field over a set of documents, an absent value adding 0
RECURSIVE Total(_, _, _)
Total(T, S, k) ==
  IF S = {} THEN 0
  ELSE LET x == CHOOSE y \in S : TRUE
       IN (IF T[x][k] = Undefined THEN 0 ELSE T[x][k]) + Total(T, S \ {x}, k)

\* number of documents of S whose status is st
Tally(T, S, st) == Cardinality({x \in S : T[x].status = st})

PriorityStatus(completed, delayed, onTrack) ==
  CASE onTrack > 0 -> "ongoing"
    [] onTrack = 0 /\ delayed > 0 -> "delayed"
    [] onTrack = 0 /\ delayed = 0 /\ completed > 0 -> "completed"
    [] OTHER -> "ongoing"

\* rate = (utilized / allocated) * 100 when allocated > 0, and 0 otherwise
RateIs(rate, utilized, allocated) ==
  IF allocated > 0
  THEN rate[2] > 0 /\ rate[1] * allocated = utilized * 100 * rate[2]
  ELSE rate[1] = 0

\* the sums, counts and status of item are those of the documents S of P
SumsAndCountsAgree(P, item, S) ==
  /\ item.obligatedBudget = Total(P, S, "obligatedBudget")
  /\ item.totalBudgetUtilized = Total(P, S, "totalBudgetUtilized")
  /\ item.projectCompleted = Tally(P, S, "completed")
  /\ item.projectDelayed = Tally(P, S, "delayed")
  /\ item.projectsOnTrack = Tally(P, S, "ongoing")
  /\ item.status = PriorityStatus(Tally(P, S, "completed"),
                                  Tally(P, S, "delayed"), Tally(P, S, "ongoing"))

RateAgrees(P, item, S) ==
  RateIs(item.utilizationRate, Total(P, S, "totalBudgetUtilized"),
         item.totalBudgetAllocated)

\* the counts and status of a project are those of the breakdowns S of Bd
CountsAgree(Bd, doc, S) ==
  /\ doc.projectCompleted = Tally(Bd, S, "completed")
  /\ doc.projectDelayed = Tally(Bd, S, "delayed")
  /\ doc.projectsOnTrack = Tally(Bd, S, "ongoing")
  /\ doc.status = PriorityStatus(Tally(Bd, S, "completed"),
                                 Tally(Bd, S, "delayed"), Tally(Bd, S, "ongoing"))

ProjectMutations == {"projects.create", "projects.update", "projects.moveToTrash",
                     "projects.restoreFromTrash", "projects.remove"}

\* C1: in every state the budget item and project mutations reach, every
\* budget item's obligatedBudget, totalBudgetUtilized, utilizationRate,
\* projectCompleted, projectDelayed, projectsOnTrack and status are the
\* recompute of its current non-deleted child projects.
\* (An obligatedBudget that was never supplied is read as 0 here.)
C1_BudgetItemsAlwaysRecomputed ==
  \A b \in DOMAIN budgetItems :
    LET item == [budgetItems[b] EXCEPT
                   !.obligatedBudget = IF @ = Undefined THEN 0 ELSE @]
    IN /\ SumsAndCountsAgree(projects, item, LiveProjects(projects, b))
       /\ RateAgrees(projects, item, LiveProjects(projects, b))

\* the budget item a project mutation has to recompute: the one the project
\* references afterwards, or referenced when it was hard-deleted
ParentAfter ==
  IF last'.op = "projects.remove" THEN projects[last'.id].budgetItemId
  ELSE projects'[last'.id].budgetItemId

\* C2: right after every successful project mutation (create, update,
\* moveToTrash, restoreFromTrash, remove) on a project that has a
\* budgetItemId, the parent's obligatedBudget, totalBudgetUtilized, status
\* counts and status are the sums, counts and derived status over the
\* projects that reference it and are not soft-deleted in the new state.
C2_ParentRecomputedByProjectMutation ==
  [][(last'.op \in ProjectMutations /\ ParentAfter # Undefined)
       => SumsAndCountsAgree(projects', budgetItems'[ParentAfter],
                             LiveProjects(projects', ParentAfter))]_vars

\* a project was removed or trashed and its parent still has spending from
\* a sibling to report
C2_Witness ==
  /\ last.op \in {"projects.moveToTrash", "projects.remove"}
  /\ \E b \in DOMAIN budgetItems :
       /\ budgetItems[b].totalBudgetUtilized = MaxAmount
       /\ Cardinality(LiveProjects(projects, b)) = 1
       /\ \/ \E p \in DOMAIN projects :
               p = last.id /\ projects[p].budgetItemId = b /\ Trashed(projects[p])
          \/ /\ last.op = "projects.remove"
             /\ projectActivities[Len(projectActivities)].budgetItemId = b

\* C3: in every state the breakdown mutations and the project trash and
\* restore reach, every project's projectCompleted, projectDelayed,
\* projectsOnTrack and status are the counts and derived status over its
\* non-deleted child breakdowns.
\* (Counts that were never written are read as 0 here.)
C3_ProjectsAlwaysRecomputed ==
  \A p \in DOMAIN projects :
    LET doc == [projects[p] EXCEPT
                  !.projectCompleted = IF @ = Undefined THEN 0 ELSE @,
                  !.projectDelayed = IF @ = Undefined THEN 0 ELSE @,
                  !.projectsOnTrack = IF @ = Undefined THEN 0 ELSE @]
    IN CountsAgree(breakdowns, doc, LiveBreakdowns(breakdowns, p))

\* the budget items and the projects the last call recomputed
RecomputedBudgetItems ==
  IF last.op = "budgetItems.recalculateSingleBudgetItem" THEN {last.id}
  ELSE IF last.op = "budgetItems.recalculateAllMetrics" THEN DOMAIN budgetItems
  ELSE IF last.op = "lib.recalculateProjectMetrics"
       THEN {projects[last.id].budgetItemId} \ {Undefined}
  ELSE {}
RecomputedProjects ==
  IF last.op = "lib.recalculateProjectMetrics" THEN {last.id} ELSE {}

DerivedOfBudgetItem(item) ==
  <<item.obligatedBudget, item.totalBudgetUtilized, item.utilizationRate,
    item.projectCompleted, item.projectDelayed, item.projectsOnTrack, item.status>>
DerivedOfProject(doc) ==
  <<doc.projectCompleted, doc.projectDelayed, doc.projectsOnTrack, doc.status>>

\* C4: recompute is idempotent: for any budget item or project, a second
\* recompute with no change to the children in between leaves the derived
\* fields (sums, rate, counts, status) as the first left them and returns
\* the same result.
C4_RecomputeIdempotent ==
  /\ \A b \in RecomputedBudgetItems :
       LET again == recalculateBudgetItemMetrics(db, b, last.userId)
       IN /\ again.ok
          /\ DerivedOfBudgetItem(again.db.budgetItems[b])
               = DerivedOfBudgetItem(budgetItems[b])
          /\ last.op = "budgetItems.recalculateSingleBudgetItem"
               => again.ret = last.ret
  /\ last.op = "budgetItems.recalculateAllMetrics"
       => recalculateAllMetrics(db, last.userId).ret = last.ret
  /\ \A p \in RecomputedProjects :
       LET again == recalculateProjectMetrics(db, p, last.userId)
       IN /\ again.ok
          /\ DerivedOfProject(again.db.projects[p]) = DerivedOfProject(projects[p])
          /\ again.ret = last.ret
          /\ \A b \in RecomputedBudgetItems :
               DerivedOfBudgetItem(again.db.budgetItems[b])
                 = DerivedOfBudgetItem(budgetItems[b])

\* a project with a completed breakdown was recomputed, and with it a
\* parent that has spending to sum
C4_Witness ==
  /\ last.op = "lib.recalculateProjectMetrics"
  /\ projects[last.id].projectCompleted > 0
  /\ \E b \in RecomputedBudgetItems : budgetItems[b].totalBudgetUtilized > 0

\* a table with the soft-delete flag of document c flipped
Flip(T, c) ==
  [T EXCEPT ![c].isDeleted = IF Trashed(T[c]) THEN "false" ELSE "true"]
\* +1 when the flip brings c back, -1 when it trashes c
Sign(T, c) == IF Trashed(T[c]) THEN 1 ELSE 0 - 1
One(cond) == IF cond THEN 1 ELSE 0
Amount(x) == IF x = Undefined THEN 0 ELSE x

\* C5: recompute never counts a soft-deleted child: the sums and counts it
\* writes for a budget item (a project) are those of the children whose
\* isDeleted is not true, and with one child's isDeleted flipped the next
\* recompute changes each sum and count by exactly that child's contribution.
C5_TrashedChildrenNeverCounted ==
  /\ \A b \in RecomputedBudgetItems :
       /\ SumsAndCountsAgree(projects, budgetItems[b], LiveProjects(projects, b))
       /\ \A c \in {x \in DOMAIN projects : projects[x].budgetItemId = b} :
            LET next == recalculateBudgetItemMetrics(
                          [db EXCEPT !.projects = Flip(projects, c)], b, 1)
                new == next.db.budgetItems[b]
                old == budgetItems[b]
                sg == Sign(projects, c)
            IN /\ next.ok
               /\ new.obligatedBudget - old.obligatedBudget
                    = sg * Amount(projects[c].obligatedBudget)
               /\ new.totalBudgetUtilized - old.totalBudgetUtilized
                    = sg * Amount(projects[c].totalBudgetUtilized)
               /\ new.projectCompleted - old.projectCompleted
                    = sg * One(projects[c].status = "completed")
               /\ new.projectDelayed - old.projectDelayed
                    = sg * One(projects[c].status = "delayed")
               /\ new.projectsOnTrack - old.projectsOnTrack
                    = sg * One(projects[c].status = "ongoing")
  /\ \A p \in RecomputedProjects :
       /\ CountsAgree(breakdowns, projects[p], LiveBreakdowns(breakdowns, p))
       /\ \A c \in {x \in DOMAIN breakdowns : breakdowns[x].projectId = p} :
            LET next == recalculateProjectMetrics(
                          [db EXCEPT !.breakdowns = Flip(breakdowns, c)], p, 1)
                new == next.db.projects[p]
                old == projects[p]
                sg == Sign(breakdowns, c)
            IN /\ next.ok
               /\ new.projectCompleted - old.projectCompleted
                    = sg * One(breakdowns[c].status = "completed")
               /\ new.projectDelayed - old.projectDelayed
                    = sg * One(breakdowns[c].status = "delayed")
               /\ new.projectsOnTrack - old.projectsOnTrack
                    = sg * One(breakdowns[c].status = "ongoing")

\* a trashed project was recomputed: one of its two completed breakdowns is
\* trashed and only the other is counted; its parent sums the sibling alone
C5_Witness ==
  /\ last.op = "lib.recalculateProjectMetrics"
  /\ Trashed(projects[last.id])
  /\ projects[last.id].projectCompleted = 1
  /\ \E c, e \in DOMAIN breakdowns :
       /\ breakdowns[c].projectId = last.id /\ breakdowns[e].projectId = last.id
       /\ breakdowns[c].status = "completed" /\ breakdowns[e].status = "completed"
       /\ Trashed(breakdowns[c]) /\ ~Trashed(breakdowns[e])
  /\ \E b \in RecomputedBudgetItems :
       /\ budgetItems[b].totalBudgetUtilized = MaxAmount
       /\ Cardinality(LiveProjects(projects, b)) = 1
       /\ projects[last.id].totalBudgetUtilized = MaxAmount

\* C6: status priority law: whatever the counts of the active children, the
\* derived status is ongoing if onTrack > 0, otherwise delayed if
\* delayed > 0, otherwise completed if completed > 0, otherwise ongoing; it
\* is completed only when an active child is completed and none is ongoing
\* or delayed.
C6_StatusPriorityLaw ==
  /\ \A b \in RecomputedBudgetItems :
       LET item == budgetItems[b]
           S == LiveProjects(projects, b)
       IN /\ item.status = PriorityStatus(item.projectCompleted,
                                          item.projectDelayed, item.projectsOnTrack)
          /\ item.status = PriorityStatus(Tally(projects, S, "completed"),
                                          Tally(projects, S, "delayed"),
                                          Tally(projects, S, "ongoing"))
          /\ item.status = "completed"
               => /\ \E x \in S : projects[x].status = "completed"
                  /\ \A x \in S : projects[x].status \notin {"ongoing", "delayed"}
          /\ last.op = "budgetItems.recalculateSingleBudgetItem"
               => last.ret.status = item.status
  /\ \A p \in RecomputedProjects :
       LET doc == projects[p]
           S == LiveBreakdowns(breakdowns, p)
       IN /\ doc.status = PriorityStatus(doc.projectCompleted,
                                         doc.projectDelayed, doc.projectsOnTrack)
          /\ doc.status = PriorityStatus(Tally(breakdowns, S, "completed"),
                                         Tally(breakdowns, S, "delayed"),
                                         Tally(breakdowns, S, "ongoing"))
          /\ doc.status = "completed"
               => /\ \E x \in S : breakdowns[x].status = "completed"
                  /\ \A x \in S : breakdowns[x].status \notin {"ongoing", "delayed"}
          /\ last.ret.status = doc.status

\* a project with one breakdown on track and one delayed came out ongoing
C6_Witness ==
  /\ last.op = "lib.recalculateProjectMetrics"
  /\ projects[last.id].projectsOnTrack = 1
  /\ projects[last.id].projectDelayed = 1
  /\ projects[last.id].status = "ongoing"

\* C7: zero-children default: a recompute that finds no active child writes
\* every status count 0 and status ongoing, and for a budget item also
\* obligatedBudget 0, totalBudgetUtilized 0 and utilizationRate 0.
C7_ZeroChildrenDefault ==
  /\ \A b \in RecomputedBudgetItems :
       LiveProjects(projects, b) = {}
         => /\ budgetItems[b].obligatedBudget = 0
            /\ budgetItems[b].totalBudgetUtilized = 0
            /\ budgetItems[b].utilizationRate[1] = 0
            /\ budgetItems[b].projectCompleted = 0
            /\ budgetItems[b].projectDelayed = 0
            /\ budgetItems[b].projectsOnTrack = 0
            /\ budgetItems[b].status = "ongoing"
  /\ \A p \in RecomputedProjects :
       LiveBreakdowns(breakdowns, p) = {}
         => /\ projects[p].projectCompleted = 0
            /\ projects[p].projectDelayed = 0
            /\ projects[p].projectsOnTrack = 0
            /\ projects[p].status = "ongoing"

\* a funded budget item whose projects are all in the trash, with spending
\* and a completed status among them, was recomputed to the defaults
C7_Witness ==
  /\ last.op = "budgetItems.recalculateSingleBudgetItem"
  /\ budgetItems[last.id].totalBudgetAllocated > 0
  /\ LiveProjects(projects, last.id) = {}
  /\ \E x \in DOMAIN projects :
       /\ projects[x].budgetItemId = last.id
       /\ projects[x].totalBudgetUtilized > 0
       /\ projects[x].status = "completed"
  /\ budgetItems[last.id].totalBudgetUtilized = 0
  /\ budgetItems[last.id].status = "ongoing"

\* C8: the budget item recompute sets utilizationRate to (sum of
\* totalBudgetUtilized over the active projects / the item's own
\* totalBudgetAllocated) * 100 when totalBudgetAllocated > 0 and to 0
\* otherwise; the projects' own allocations do not enter.
C8_UtilizationRateFormula ==
  \A b \in RecomputedBudgetItems :
    /\ RateAgrees(projects, budgetItems[b], LiveProjects(projects, b))
    /\ budgetItems[b].totalBudgetAllocated <= 0
         => budgetItems[b].utilizationRate = <<0, 1>>
    /\ last.op = "budgetItems.recalculateSingleBudgetItem"
         => last.ret.utilizationRate = budgetItems[b].utilizationRate
    /\ LET unallocated == [x \in DOMAIN projects |->
                             [projects[x] EXCEPT !.totalBudgetAllocated = 0]]
           next == recalculateBudgetItemMetrics(
                     [db EXCEPT !.projects = unallocated], b, 1)
       IN next.db.budgetItems[b].utilizationRate = budgetItems[b].utilizationRate

\* half of the item's allocation is spent by an active project whose own
\* allocation is a different amount
C8_Witness ==
  /\ last.op = "budgetItems.recalculateSingleBudgetItem"
  /\ budgetItems[last.id].totalBudgetAllocated = 2 * MaxAmount
  /\ budgetItems[last.id].utilizationRate = <<50, 1>>
  /\ \E x \in LiveProjects(projects, last.id) :
       /\ projects[x].totalBudgetUtilized = MaxAmount
       /\ projects[x].totalBudgetAllocated = MaxAmount + 2

\* C9: cascade on trash: after moveToTrash(p) succeeds p has isDeleted =
\* true, every breakdown whose projectId is p has isDeleted = true, the
\* breakdowns of other projects are untouched, and the parent budget item's
\* sums and counts no longer include p.
C9_TrashCascade ==
  [][last'.op = "projects.moveToTrash"
       => LET p == last'.id
              b == projects'[p].budgetItemId
          IN /\ projects'[p].isDeleted = "true"
             /\ DOMAIN breakdowns' = DOMAIN breakdowns
             /\ \A c \in DOMAIN breakdowns :
                  IF breakdowns[c].projectId = p
                  THEN breakdowns'[c].isDeleted = "true"
                  ELSE breakdowns'[c] = breakdowns[c]
             /\ b # Undefined
                  => SumsAndCountsAgree(projects', budgetItems'[b],
                       {x \in DOMAIN projects' \ {p} :
                          /\ projects'[x].budgetItemId = b
                          /\ ~Trashed(projects'[x])})]_vars

\* the trashed project had a breakdown, another project keeps an untrashed
\* one, and the parent still reports the spending of a sibling
C9_Witness ==
  /\ last.op = "projects.moveToTrash"
  /\ Trashed(projects[last.id])
  /\ \E c, e \in DOMAIN breakdowns :
       /\ breakdowns[c].projectId = last.id /\ Trashed(breakdowns[c])
       /\ breakdowns[e].projectId # last.id /\ ~Trashed(breakdowns[e])
  /\ projects[last.id].budgetItemId \in DOMAIN budgetItems
  /\ projects[last.id].totalBudgetUtilized = MaxAmount
  /\ budgetItems[projects[last.id].budgetItemId].totalBudgetUtilized = MaxAmount
  /\ budgetItems[projects[last.id].budgetItemId].projectCompleted = 1

\* what restoreFromTrash(p) leaves: p not deleted and its deletedBy cleared,
\* no breakdown of p deleted, and the parent's sums and counts with p in them
RestoredAfter ==
  last'.op = "projects.restoreFromTrash"
    => LET p == last'.id
           b == projects'[p].budgetItemId
       IN /\ projects'[p].isDeleted = "false"
          /\ projects'[p].deletedBy = Undefined
          /\ \A c \in DOMAIN breakdowns' :
               breakdowns'[c].projectId = p => ~Trashed(breakdowns'[c])
          /\ b # Undefined
               => /\ p \in LiveProjects(projects', b)
                  /\ SumsAndCountsAgree(projects', budgetItems'[b],
                                        LiveProjects(projects', b))

\* the entry moveToTrash appended, and the projects table as it was before
\* that call (moveToTrash changes no project but its target)
TrashEntry == projectActivities[Len(projectActivities)]
ProjectsBeforeTrash == [projects EXCEPT ![last.id] = TrashEntry.previousValues[1]]

\* this step is restoreFromTrash(p) and the step before it was moveToTrash(p)
RestoresLastTrashed ==
  /\ last.op = "projects.moveToTrash"
  /\ last'.op = "projects.restoreFromTrash"
  /\ last'.id = last.id

\* the parent's derived fields are what a recompute gave before the trash
ParentAsBeforeTrash ==
  LET b == TrashEntry.previousValues[1].budgetItemId
  IN b # Undefined
       => /\ SumsAndCountsAgree(ProjectsBeforeTrash, budgetItems'[b],
                                LiveProjects(ProjectsBeforeTrash, b))
          /\ RateAgrees(ProjectsBeforeTrash, budgetItems'[b],
                        LiveProjects(ProjectsBeforeTrash, b))

\* C10 as stated: after restoreFromTrash(p) succeeds p has isDeleted = false
\* with deletedBy cleared, no breakdown of p has isDeleted = true and the
\* parent's sums and counts include p again; so moveToTrash(p) followed by
\* restoreFromTrash(p) returns the parent's derived fields to the values a
\* recompute gave before the trash.
C10_RestoreUndoesAnyTrash ==
  [][RestoredAfter /\ (RestoresLastTrashed => ParentAsBeforeTrash)]_vars

\* C10: after restoreFromTrash(p) succeeds p has isDeleted = false with
\* deletedBy cleared, no breakdown of p has isDeleted = true and the
\* parent's sums and counts include p again; so moveToTrash(p) of a p that
\* was not already in the trash, followed by restoreFromTrash(p), returns
\* the parent's derived fields to the values a recompute gave before the
\* trash.
C10_RestoreUndoesTrash ==
  [][RestoredAfter
       /\ ((RestoresLastTrashed /\ ~Trashed(TrashEntry.previousValues[1]))
             => ParentAsBeforeTrash)]_vars

\* a project with a breakdown and a funded parent was moved to the trash
\* from outside it and restored: breakdown and spending are back
C10_Witness ==
  /\ last.op = "projects.restoreFromTrash"
  /\ Len(projectActivities) > 0
  /\ TrashEntry.projectId = last.id
  /\ TrashEntry.newValues # <<>> /\ TrashEntry.previousValues # <<>>
  /\ Trashed(TrashEntry.newValues[1])
  /\ ~Trashed(TrashEntry.previousValues[1])
  /\ ~Trashed(projects[last.id])
  /\ \E c \in DOMAIN breakdowns :
       breakdowns[c].projectId = last.id /\ breakdowns[c].isDeleted = "false"
  /\ projects[last.id].budgetItemId \in DOMAIN budgetItems
  /\ projects[last.id].totalBudgetUtilized = MaxAmount
  /\ budgetItems[projects[last.id].budgetItemId].totalBudgetUtilized = MaxAmount

\* C11: re-parenting: a project update that changes budgetItemId from A to
\* B (both present, A # B) recomputes both, so that afterwards A's sums
\* and counts exclude the project and B's include it; when old and new
\* parent are equal only that one is recomputed, and when the old or the
\* new parent is absent only the existing one is recomputed.
C11_ReparentingRecomputesBoth ==
  [][last'.op = "projects.update"
       => LET p == last'.id
              A == projects[p].budgetItemId
              B == projects'[p].budgetItemId
          IN /\ A # Undefined
                  => SumsAndCountsAgree(projects', budgetItems'[A],
                                        LiveProjects(projects', A))
             /\ (A # Undefined /\ A # B) => p \notin LiveProjects(projects', A)
             /\ B # Undefined
                  => /\ SumsAndCountsAgree(projects', budgetItems'[B],
                                           LiveProjects(projects', B))
                     /\ ~Trashed(projects'[p]) => p \in LiveProjects(projects', B)
             /\ \A b \in DOMAIN budgetItems' \ {A, B} :
                  budgetItems'[b] = budgetItems[b]]_vars

\* a spending project moved from budget item 1 to budget item 2: the first
\* reports nothing spent, the second reports the project's spending
C11_Witness ==
  /\ last.op = "projects.update"
  /\ Len(projectActivities) > 0
  /\ projectActivities[Len(projectActivities)].previousValues # <<>>
  /\ projectActivities[Len(projectActivities)].previousValues[1].budgetItemId = 1
  /\ projectActivities[Len(projectActivities)].previousValues[1].totalBudgetUtilized
       = MaxAmount
  /\ last.id \in DOMAIN projects
  /\ projects[last.id].budgetItemId = 2
  /\ projects[last.id].totalBudgetUtilized = MaxAmount
  /\ {1, 2} \subseteq DOMAIN budgetItems
  /\ budgetItems[1].totalBudgetUtilized = 0
  /\ budgetItems[2].totalBudgetUtilized = MaxAmount

\* the tables, without the record of the last call
store == <<budgetItems, projects, breakdowns, projectActivities,
           budgetItemActivities, breakdownActivities, nextId>>

\* the projects that reference budget item b, those in the trash included
ReferencingProjects(P, b) == {p \in DOMAIN P : P[p].budgetItemId = b}

\* C12: deletion precondition: removing a budget item that at least one
\* project references (soft-deleted projects included) fails and performs
\* no mutation: budget items, projects and activity logs are unchanged;
\* the error carries the number of linked projects (for a caller who gets
\* as far as the precondition: the creator of the item).
C12_LinkedBudgetItemNotRemoved ==
  [][(/\ last'.op = "budgetItems.remove"
      /\ last'.id \in DOMAIN budgetItems
      /\ ReferencingProjects(projects, last'.id) # {})
       => /\ last'.err # ""
          /\ store' = store
          /\ last'.userId = budgetItems[last'.id].createdBy
               => /\ last'.err = "Cannot delete budget item with linked project(s)"
                  /\ last'.ret
                       = <<Cardinality(ReferencingProjects(projects, last'.id))>>]_vars

\* the creator was refused the removal of a budget item that two projects
\* reference, one of them in the trash
C12_Witness ==
  /\ last.op = "budgetItems.remove"
  /\ last.err = "Cannot delete budget item with linked project(s)"
  /\ last.ret = <<2>>
  /\ last.id \in DOMAIN budgetItems
  /\ \E p, q \in ReferencingProjects(projects, last.id) :
       Trashed(projects[p]) /\ ~Trashed(projects[q])

\* the fields of a snapshot that the diff of two snapshots has to name
DiffersOutsideIgnoreList(prev, new) ==
  {k \in (DOMAIN prev \cup DOMAIN new) \ IgnoredKeys : prev[k] # new[k]}

Elements(s) == {s[i] : i \in 1..Len(s)}

\* C13: diff correctness of the project activity log: an `updated` entry
\* with both snapshots lists in changedFields exactly the keys outside the
\* ignore list whose values differ, each once; budgetChanged is set, with
\* the old and the new allocation, if and only if totalBudgetAllocated is
\* among them; an entry with a snapshot missing has an empty changedFields
\* and an empty changeSummary.
C13_DiffCorrect ==
  \A i \in 1..Len(projectActivities) :
    LET e == projectActivities[i]
    IN IF e.action = "updated" /\ e.previousValues # <<>> /\ e.newValues # <<>>
       THEN LET prev == e.previousValues[1]
                new == e.newValues[1]
            IN /\ Elements(e.changedFields) = DiffersOutsideIgnoreList(prev, new)
               /\ Len(e.changedFields) = Cardinality(Elements(e.changedFields))
               /\ e.changeSummary.budgetChanged
                    <=> prev.totalBudgetAllocated # new.totalBudgetAllocated
               /\ e.changeSummary.budgetChanged
                    => /\ e.changeSummary.oldBudget = prev.totalBudgetAllocated
                       /\ e.changeSummary.newBudget = new.totalBudgetAllocated
               /\ ~e.changeSummary.budgetChanged => e.changeSummary = NoSummary
       ELSE e.changedFields = <<>> /\ e.changeSummary = NoSummary

\* the log holds an update that changed the allocation and an ignored field,
\* a trash entry whose diff is the deletion flag alone, and a creation entry
C13_Witness ==
  /\ \E i \in 1..Len(projectActivities) :
       LET e == projectActivities[i]
       IN /\ e.action = "updated"
          /\ e.changeSummary.budgetChanged
          /\ e.changeSummary.oldBudget # e.changeSummary.newBudget
          /\ e.previousValues[1].updatedBy # e.newValues[1].updatedBy
          /\ "totalBudgetUtilized" \in Elements(e.changedFields)
  /\ \E i \in 1..Len(projectActivities) :
       projectActivities[i].changedFields = <<"isDeleted">>
  /\ \E i \in 1..Len(projectActivities) :
       projectActivities[i].action = "created"

BulkOps == {"govtProjects.bulkUpdateBreakdowns",
            "govtProjects.bulkDeleteBreakdowns"}

\* the breakdown ids a bulk call names, in list order
RequestedIds(op, arg) ==
  IF op = "govtProjects.bulkUpdateBreakdowns"
  THEN [i \in DOMAIN arg |-> arg[i].breakdownId]
  ELSE arg

\* the positions of a list of ids that name a stored breakdown; a deletion
\* finds a breakdown at the first position that names it only
FoundAt(op, req, Bd) ==
  SelectSeq([i \in DOMAIN req |-> i],
    LAMBDA i : /\ req[i] \in DOMAIN Bd
               /\ op = "govtProjects.bulkDeleteBreakdowns"
                    => \A j \in 1..(i - 1) : req[j] # req[i])

\* the positions before position k of idx that name the same breakdown
EarlierSame(req, idx, k) == {j \in 1..(k - 1) : req[idx[j]] = req[idx[k]]}

Max(S) == CHOOSE x \in S : \A y \in S : y <= x

\* C14: bulk partial-success: a bulk update or delete over a list of
\* breakdown ids of which some are missing does not fail; it processes the
\* stored breakdowns one after the other in list order and leaves the
\* missing ones out; it returns the number of breakdowns processed and
\* their ids; and exactly those records reach the audit log, one entry per
\* processed record, in order, all under the one batch id it returns, with
\* the snapshots of that record before and after its own step.
C14_BulkPartialSuccess ==
  [][(last'.op \in BulkOps /\ last'.userId # Undefined)
       => LET op == last'.op
              req == RequestedIds(op, last'.id)
              idx == FoundAt(op, req, breakdowns)
              old == Len(breakdownActivities)
              entry(k) == breakdownActivities'[old + k]
          IN /\ last'.err = ""
             /\ last'.ret.count = Len(idx)
             /\ last'.ret.ids = [k \in DOMAIN idx |-> req[idx[k]]]
             /\ Len(breakdownActivities') = old + Len(idx)
             /\ SubSeq(breakdownActivities', 1, old) = breakdownActivities
             /\ \A i \in 1..old :
                  breakdownActivities[i].batchId # last'.ret.batchId
             /\ \A k \in DOMAIN idx :
                  /\ entry(k).breakdownId = req[idx[k]]
                  /\ entry(k).batchId = last'.ret.batchId
                  /\ entry(k).performedBy = last'.userId
             /\ op = "govtProjects.bulkDeleteBreakdowns"
                  => /\ DOMAIN breakdowns' = DOMAIN breakdowns \ Elements(req)
                     /\ \A b \in DOMAIN breakdowns' :
                          breakdowns'[b] = breakdowns[b]
                     /\ \A k \in DOMAIN idx :
                          /\ entry(k).action = "bulk_deleted"
                          /\ entry(k).previousValues
                               = <<breakdowns[req[idx[k]]]>>
             /\ op = "govtProjects.bulkUpdateBreakdowns"
                  => /\ DOMAIN breakdowns' = DOMAIN breakdowns
                     /\ \A b \in DOMAIN breakdowns \ Elements(req) :
                          breakdowns'[b] = breakdowns[b]
                     /\ \A k \in DOMAIN idx :
                          LET before ==
                                IF EarlierSame(req, idx, k) = {}
                                THEN breakdowns[req[idx[k]]]
                                ELSE entry(Max(EarlierSame(req, idx, k))).newValues[1]
                              after ==
                                [before EXCEPT !.status = last'.id[idx[k]].status,
                                               !.updatedBy = last'.userId]
                          IN /\ entry(k).action = "bulk_updated"
                             /\ entry(k).previousValues = <<before>>
                             /\ entry(k).newValues = <<after>>
                             /\ (\A j \in (k + 1)..Len(idx) :
                                   req[idx[j]] # req[idx[k]])
                                  => breakdowns'[req[idx[k]]] = after]_vars

\* a bulk update over a full-length list that names a missing breakdown
\* first and stored ones after it has processed all but the first, after a
\* bulk deletion that left an entry under its own batch id
C14_Witness ==
  /\ last.op = "govtProjects.bulkUpdateBreakdowns"
  /\ last.err = ""
  /\ Len(last.id) = MaxBulk
  /\ last.id[1].breakdownId \notin DOMAIN breakdowns
  /\ last.ret.count = MaxBulk - 1
  /\ Len(breakdownActivities) = MaxBulk
  /\ breakdownActivities[1].action = "bulk_deleted"
  /\ breakdownActivities[1].batchId # last.ret.batchId
  /\ \A i \in 2..Len(breakdownActivities) :
       /\ breakdownActivities[i].action = "bulk_updated"
       /\ breakdownActivities[i].batchId = last.ret.batchId

TargetedProjectOps == {"projects.update", "projects.moveToTrash",
                       "projects.restoreFromTrash", "projects.remove"}
LoggedProjectOps == {"projects.create", "projects.update",
                     "projects.moveToTrash", "projects.remove"}
ProjectOps == TargetedProjectOps \cup LoggedProjectOps

\* C15: failure atomicity: a project mutation (create, update, moveToTrash,
\* restoreFromTrash, remove) that meets a not-found condition fails as a
\* whole and persists nothing.  A call that throws leaves every table as it
\* was; and no call returns when its target project is absent, when the
\* acting user is absent and the mutation logs an activity, or (create and
\* update) when the budget item it references is absent.
C15_FailureAtomicity ==
  [][last'.op \in ProjectOps
       => /\ last'.err # "" => store' = store
          /\ (last'.op \in TargetedProjectOps /\ last'.id \notin DOMAIN projects)
               => last'.err # ""
          /\ (last'.op \in LoggedProjectOps /\ last'.userId \notin DOMAIN users)
               => last'.err # ""
          /\ (last'.op \in {"projects.create", "projects.update"}
                /\ last'.err = "")
               => projects'[last'.id].budgetItemId
                    \in DOMAIN budgetItems \cup {Undefined}]_vars

\* moveToTrash by a caller without a users row has thrown at the logging
\* step, after the handler had patched the project and recomputed its
\* parent; the project is still outside the trash and still counted
C15_Witness ==
  /\ last.op = "projects.moveToTrash"
  /\ last.err = "User not found for logging"
  /\ last.id \in DOMAIN projects
  /\ ~Trashed(projects[last.id])
  /\ projects[last.id].budgetItemId \in DOMAIN budgetItems
  /\ budgetItems[projects[last.id].budgetItemId].totalBudgetUtilized = MaxAmount
  /\ LET r == moveToTrash(db, last.userId, last.id, UndefinedStr)
     IN /\ ~r.ok
        /\ Trashed(r.db.projects[last.id])
        /\ r.db.budgetItems[projects[last.id].budgetItemId].totalBudgetUtilized = 0

\* the action a logged project mutation records
LoggedAction(op) ==
  CASE op = "projects.create" -> "created"
    [] op = "projects.update" -> "updated"
    [] op = "projects.moveToTrash" -> "updated"
    [] op = "projects.remove" -> "deleted"

\* C16: exactly-one audit entry per logged mutation: each successful
\* project create, update, moveToTrash and remove appends exactly one entry
\* to the project activity log (action created, updated, updated and
\* deleted) that carries the target id, the snapshots the handler supplies
\* (create: the new document; update: the document before and after;
\* moveToTrash: the document before, and the same with the deletion flag
\* set; remove: the document before) and the reason; a call that fails
\* appends none.
C16_OneEntryPerMutation ==
  [][last'.op \in LoggedProjectOps
       => IF last'.err # "" THEN projectActivities' = projectActivities
          ELSE LET n == Len(projectActivities)
                   e == projectActivities'[n + 1]
                   p == last'.id
               IN /\ Len(projectActivities') = n + 1
                  /\ SubSeq(projectActivities', 1, n) = projectActivities
                  /\ e.action = LoggedAction(last'.op)
                  /\ e.projectId = p
                  /\ e.performedBy = last'.userId
                  /\ last'.op = "projects.create"
                       => /\ e.previousValues = <<>>
                          /\ e.newValues = <<projects'[p]>>
                          /\ e.reason = "New project creation"
                  /\ last'.op = "projects.update"
                       => /\ e.previousValues = <<projects[p]>>
                          /\ e.newValues = <<projects'[p]>>
                          /\ e.reason \in {f.reason : f \in SpentProjectFinancials}
                  /\ last'.op = "projects.moveToTrash"
                       => /\ e.previousValues = <<projects[p]>>
                          /\ e.newValues
                               = <<[projects[p] EXCEPT !.isDeleted = "true"]>>
                          /\ e.reason = "Moved to trash"
                  /\ last'.op = "projects.remove"
                       => /\ e.previousValues = <<projects[p]>>
                          /\ e.newValues = <<>>
                          /\ e.reason = "Permanent Delete"]_vars

\* a project was created, moved to the trash and removed for good, and the
\* log holds one entry for each of the three calls
C16_Witness ==
  /\ last.op = "projects.remove"
  /\ last.err = ""
  /\ Len(projectActivities) = 3
  /\ projectActivities[1].action = "created"
  /\ projectActivities[2].action = "updated"
  /\ projectActivities[2].reason = "Moved to trash"
  /\ projectActivities[3].action = "deleted"
  /\ \A i \in 1..3 : projectActivities[i].projectId = last.id
  /\ projectActivities[3].previousValues[1].isDeleted = "true"

\* the entries of a log as they were are the first entries of the log as
\* it is
Extends(log2, log1) ==
  /\ Len(log2) >= Len(log1)
  /\ \A i \in 1..Len(log1) : log2[i] = log1[i]

\* an entry with the review annotation of another
WithReviewOf(e, f) ==
  [e EXCEPT !.isReviewed = f.isReviewed, !.reviewedBy = f.reviewedBy,
            !.reviewNotes = f.reviewNotes]

\* C17: the activity logs are append-only: no step deletes an entry or
\* changes its action, target, snapshots, changedFields, reason or actor
\* snapshot, whatever happens later (a change of the actor's role, the hard
\* delete of the target); the only step that modifies an entry is
\* reviewActivity, and what it changes is the review annotation
\* (isReviewed, reviewedBy, reviewNotes) alone.
C17_LogAppendOnly ==
  [][/\ Extends(projectActivities', projectActivities)
     /\ Extends(budgetItemActivities', budgetItemActivities)
     /\ Len(breakdownActivities') >= Len(breakdownActivities)
     /\ \A i \in 1..Len(breakdownActivities) :
          /\ WithReviewOf(breakdownActivities'[i], breakdownActivities[i])
               = breakdownActivities[i]
          /\ breakdownActivities'[i] # breakdownActivities[i]
               => /\ last'.op = "activities.reviewActivity"
                  /\ last'.id = i]_vars

\* the log holds the entry of a project that has since been removed for
\* good, written by an actor whose role has since changed, and a reviewed
\* entry of a breakdown that has since been deleted
C17_Witness ==
  /\ \E i \in 1..Len(projectActivities) :
       LET e == projectActivities[i]
       IN /\ e.action = "created"
          /\ e.projectId \notin DOMAIN projects
          /\ e.performedByRole = "super_admin"
          /\ users[e.performedBy].role = "user"
  /\ \E i \in 1..Len(breakdownActivities) :
       LET e == breakdownActivities[i]
       IN /\ e.isReviewed = "true"
          /\ e.reviewNotes = "checked"
          /\ e.breakdownId \notin DOMAIN breakdowns

C19_RestoreLogged ==
  [][(last'.op = "projects.restoreFromTrash" /\ last'.err = "")
       => /\ Len(projectActivities') = Len(projectActivities) + 1
          /\ projectActivities'[Len(projectActivities')].projectId = last'.id]_vars

\* the category a breakdown status counts toward
NormalizedStatus(st) ==
  CASE st \in {"Completed", "completed"} -> "completed"
    [] st \in {"Delayed", "delayed"} -> "delayed"
    [] st \in {"On-Going", "On-Hold", "ongoing"} -> "ongoing"
    [] OTHER -> "none"

CountNormalized(Bd, S, category) ==
  Cardinality({c \in S : NormalizedStatus(Bd[c].status) = category})

\* C20: the project recompute counts the project's non-deleted breakdowns
\* by normalized status: On-Hold counts toward projectsOnTrack with the
\* ongoing ones, a Cancelled breakdown or one without status counts toward
\* none of the three, for every status value the breakdown mutations
\* accept.
C20_NormalizedStatusCounts ==
  [][(last'.op = "lib.recalculateProjectMetrics" /\ last'.err = "")
       => LET p == last'.id
              S == LiveBreakdowns(breakdowns', p)
          IN /\ projects'[p].projectCompleted
                  = CountNormalized(breakdowns', S, "completed")
             /\ projects'[p].projectDelayed
                  = CountNormalized(breakdowns', S, "delayed")
             /\ projects'[p].projectsOnTrack
                  = CountNormalized(breakdowns', S, "ongoing")]_vars

\* C21: transitive recompute: recalculateProjectMetrics(p) persists p's
\* new counts and status and only then recomputes p's parent budget item,
\* in the branch without breakdowns and in the branch with breakdowns: when
\* the call returns, the parent's counts and status are those of its
\* non-deleted projects with p's new status among them; for a project
\* without a parent no budget item is written.
C21_TransitiveRecompute ==
  [][(last'.op = "lib.recalculateProjectMetrics" /\ last'.err = "")
       => LET p == last'.id
              parent == projects[p].budgetItemId
          IN /\ projects'[p].status = last'.ret.status
             /\ projects'[p].projectCompleted = last'.ret.completed
             /\ projects'[p].projectDelayed = last'.ret.delayed
             /\ projects'[p].projectsOnTrack = last'.ret.onTrack
             /\ parent # Undefined
                  => SumsAndCountsAgree(projects', budgetItems'[parent],
                                        LiveProjects(projects', parent))
             /\ parent = Undefined => budgetItems' = budgetItems]_vars

\* project 2 has just been recomputed in the branch without breakdowns,
\* project 1 carries a status that only a recompute with breakdowns gives
\* it, and their parent counts one delayed and one ongoing project
C21_Witness ==
  /\ last.op = "lib.recalculateProjectMetrics"
  /\ last.id = 2
  /\ last.ret.breakdownsCount = 0
  /\ DOMAIN projects = {1, 2}
  /\ projects[1].budgetItemId = 1 /\ projects[2].budgetItemId = 1
  /\ ~Trashed(projects[1]) /\ ~Trashed(projects[2])
  /\ projects[1].status = "delayed" /\ projects[1].projectDelayed = 1
  /\ projects[2].status = "ongoing"
  /\ budgetItems[1].projectDelayed = 1
  /\ budgetItems[1].projectsOnTrack = 1
  /\ budgetItems[1].status = "ongoing"

(* ---------------------------------------------------------------------- *)
(* Two mutations at once, with and without transaction isolation           *)
(* ---------------------------------------------------------------------- *)
\* recalculateBudgetItemMetrics up to its last read: the query of the active
\* projects, the get of the budget item and the aggregation
ReadBudgetItemMetrics(d, b) ==
  IF b \notin DOMAIN d.budgetItems THEN Throw(d, "Budget item not found")
  ELSE Ok(d, BudgetItemMetrics(d, b))

\* recalculateBudgetItemMetrics from its write on: the patch of the parent row
\* with the metrics computed from what was read
WriteBudgetItemMetrics(d, b, m, userId) ==
  Ok([d EXCEPT !.budgetItems[b] = PatchBudgetItemMetrics(@, m, userId)], m)

\* projects.moveToTrash up to the recompute's last read
moveToTrashUntilRead(d, userId, id) ==
  IF userId = Undefined THEN Throw(d, "Not authenticated")
  ELSE IF id \notin DOMAIN d.projects THEN Throw(d, "Project not found")
  ELSE LET existing == d.projects[id]
           d1 == [d EXCEPT !.projects[id] =
                    [@ EXCEPT !.isDeleted = "true", !.deletedBy = userId,
                              !.updatedBy = userId]]
           d2 == [d1 EXCEPT !.breakdowns = TrashBreakdowns(@, id, userId)]
           b == existing.budgetItemId
           r1 == IF b = Undefined THEN Ok(d2, <<>>)
                 ELSE ReadBudgetItemMetrics(d2, b)
       IN IF ~r1.ok THEN r1
          ELSE Ok(r1.db, [op |-> "projects.moveToTrash", userId |-> userId,
                          id |-> id, budgetItemId |-> b, metrics |-> r1.ret,
                          existing |-> existing])

\* projects.moveToTrash from the recompute's write on: the patch of the parent
\* and the activity entry
moveToTrashFromWrite(d, read, reason) ==
  LET r1 == IF read.budgetItemId = Undefined THEN Ok(d, <<>>)
            ELSE WriteBudgetItemMetrics(d, read.budgetItemId, read.metrics,
                                        read.userId)
      r2 == logProjectActivity(r1.db, read.userId,
              [action |-> "updated", projectId |-> read.id,
               previousValues |-> <<read.existing>>,
               newValues |-> <<[read.existing EXCEPT !.isDeleted = "true"]>>,
               reason |-> IF reason = UndefinedStr THEN "Moved to trash"
                          ELSE reason])
  IN IF ~r2.ok THEN r2 ELSE Ok(r2.db, [success |-> TRUE])

\* projects.restoreFromTrash up to the recompute's last read
restoreFromTrashUntilRead(d, userId, id) ==
  IF userId = Undefined THEN Throw(d, "Not authenticated")
  ELSE IF id \notin DOMAIN d.projects THEN Throw(d, "Project not found")
  ELSE LET existing == d.projects[id]
           d1 == [d EXCEPT !.projects[id] =
                    [@ EXCEPT !.isDeleted = "false", !.deletedBy = Undefined]]
           d2 == [d1 EXCEPT !.breakdowns = RestoreBreakdowns(@, id)]
           b == existing.budgetItemId
           r1 == IF b = Undefined THEN Ok(d2, <<>>)
                 ELSE ReadBudgetItemMetrics(d2, b)
       IN IF ~r1.ok THEN r1
          ELSE Ok(r1.db, [op |-> "projects.restoreFromTrash", userId |-> userId,
                          id |-> id, budgetItemId |-> b, metrics |-> r1.ret,
                          existing |-> existing])

\* projects.restoreFromTrash from the recompute's write on
restoreFromTrashFromWrite(d, read) ==
  LET r1 == IF read.budgetItemId = Undefined THEN Ok(d, <<>>)
            ELSE WriteBudgetItemMetrics(d, read.budgetItemId, read.metrics,
                                        read.userId)
  IN Ok(r1.db, [success |-> TRUE])

\* the two clients; client w works on project w
Workers == {1, 2}
Idle == [op |-> "idle"]
InFlight(op) == {w \in Workers : tx.reads[w].op = op}

\* a part of a mutation that takes effect on its own: its writes are in the
\* store, and what it has read stays with the client
Part(op, w, r, reads) ==
  /\ r.ok
  /\ budgetItems' = r.db.budgetItems
  /\ projects' = r.db.projects
  /\ breakdowns' = r.db.breakdowns
  /\ projectActivities' = r.db.projectActivities
  /\ budgetItemActivities' = r.db.budgetItemActivities
  /\ breakdownActivities' = r.db.breakdownActivities
  /\ nextId' = r.db.nextId
  /\ UNCHANGED users
  /\ tx' = [tx EXCEPT !.reads[w] = reads]
  /\ last' = [op |-> op, userId |-> 1, id |-> w, ret |-> <<>>, err |-> ""]

BeginMoveToTrash(w) ==
  /\ tx.isolation = "none"
  /\ tx.reads[w].op = "idle"
  /\ Logged + Cardinality(InFlight("projects.moveToTrash")) < MaxLog
  /\ LET r == moveToTrashUntilRead(db, 1, w)
     IN Part("projects.moveToTrash:read", w, r, r.ret)

FinishMoveToTrash(w) ==
  /\ tx.reads[w].op = "projects.moveToTrash"
  /\ Part("projects.moveToTrash:write", w,
          moveToTrashFromWrite(db, tx.reads[w], UndefinedStr), Idle)

BeginRestoreFromTrash(w) ==
  /\ tx.isolation = "none"
  /\ tx.reads[w].op = "idle"
  /\ LET r == restoreFromTrashUntilRead(db, 1, w)
     IN Part("projects.restoreFromTrash:read", w, r, r.ret)

FinishRestoreFromTrash(w) ==
  /\ tx.reads[w].op = "projects.restoreFromTrash"
  /\ Part("projects.restoreFromTrash:write", w,
          restoreFromTrashFromWrite(db, tx.reads[w]), Idle)

\* the stores the race starts from: one budget item with two projects created
\* under it, some of them moved to the trash since
RECURSIVE TrashedInTurn(_, _)
TrashedInTurn(d, S) ==
  IF S = {} THEN d
  ELSE LET p == CHOOSE x \in S : \A y \in S : x <= y
       IN TrashedInTurn(moveToTrash(d, 1, p, UndefinedStr).db, S \ {p})

RaceStores ==
  {TrashedInTurn(
     projectsCreate(
       projectsCreate(budgetItemsCreate(EmptyDb, 1, a).db, 1, args).db,
       1, args).db, S) :
     a \in FundedBudgetItemArgs,
     args \in ProjectArgs({1}, SpentProjectFinancials),
     S \in SUBSET Workers}

InitRace ==
  /\ users = RegisteredUsers
  /\ \E d \in RaceStores :
       /\ budgetItems = d.budgetItems
       /\ projects = d.projects
       /\ breakdowns = d.breakdowns
       /\ projectActivities = d.projectActivities
       /\ budgetItemActivities = d.budgetItemActivities
       /\ breakdownActivities = d.breakdownActivities
       /\ nextId = d.nextId
  /\ \E i \in {"serializable", "none"} :
       tx = [isolation |-> i, reads |-> [w \in Workers |-> Idle]]
  /\ last = [op |-> "init", userId |-> Undefined, id |-> Undefined, ret |-> <<>>,
             err |-> ""]

NextRace ==
  \/ tx.isolation = "serializable" /\ MoveToTrash({1}, {UndefinedStr})
  \/ tx.isolation = "serializable" /\ RestoreFromTrash({1})
  \/ \E w \in Workers : BeginMoveToTrash(w)
  \/ \E w \in Workers : FinishMoveToTrash(w)
  \/ \E w \in Workers : BeginRestoreFromTrash(w)
  \/ \E w \in Workers : FinishRestoreFromTrash(w)

SpecRace == InitRace /\ [][NextRace]_vars

\* every budget item shows the sums, counts, status and rate of its projects
\* outside the trash
AggregatesAgree ==
  \A b \in DOMAIN budgetItems :
    /\ SumsAndCountsAgree(projects, budgetItems[b], LiveProjects(projects, b))
    /\ RateAgrees(projects, budgetItems[b], LiveProjects(projects, b))

\* C22: when every mutation runs as one atomic transaction, after any number
\* of mutations on the two projects of a budget item the item's derived
\* fields are the recompute of its projects outside the trash; the state in
\* which they differ is reachable only when the recompute's read and its write
\* are separate steps that another mutation can come between
C22_AtomicMutationsKeepAggregates ==
  tx.isolation = "serializable" => AggregatesAgree

\* without isolation both clients restored their project, both calls are
\* finished, and the budget item reports the spending of one project only
C22_Witness ==
  /\ tx.isolation = "none"
  /\ \A w \in Workers : tx.reads[w].op = "idle"
  /\ last.op = "projects.restoreFromTrash:write"
  /\ LiveProjects(projects, 1) = Workers
  /\ \A p \in Workers : projects[p].totalBudgetUtilized = MaxAmount
  /\ budgetItems[1].totalBudgetUtilized = MaxAmount
  /\ ~AggregatesAgree

\* C23: whatever the derived fields were before, when recalculateAllMetrics
\* returns every existing budget item has the sums, counts, status and rate
\* of its projects outside the trash, and no budget item appeared or went
C23_RecomputeAllRepairs ==
  [][(last'.op = "budgetItems.recalculateAllMetrics" /\ last'.err = "")
       => /\ DOMAIN budgetItems' = DOMAIN budgetItems
          /\ \A b \in DOMAIN budgetItems' :
               /\ SumsAndCountsAgree(projects', budgetItems'[b],
                                     LiveProjects(projects', b))
               /\ RateAgrees(projects', budgetItems'[b],
                             LiveProjects(projects', b))
          /\ Len(last'.ret) = Cardinality(DOMAIN budgetItems)]_vars

\* two budget items after a recompute-all: one was entered with spending of
\* its own and has no project, so its sums were stale and are 0 now; the other
\* reports the spending of its project
C23_Witness ==
  /\ last.op = "budgetItems.recalculateAllMetrics"
  /\ last.err = ""
  /\ Cardinality(DOMAIN budgetItems) = 2
  /\ \E b, c \in DOMAIN budgetItems :
       /\ b < c
       /\ LiveProjects(projects, b) # {}
       /\ budgetItems[b].totalBudgetUtilized = MaxAmount
       /\ budgetItems[c].particulars = "B"
       /\ ProjectsOfIgnoringTrash(projects, c) = {}
       /\ budgetItems[c].totalBudgetUtilized = 0

(* ---------------------------------------------------------------------- *)
(* The recompute loops over lists of ids                                   *)
(* ---------------------------------------------------------------------- *)
\* the lists a caller can pass: ids of rows that exist and the next id, which
\* no row has
BudgetItemIdLists == ListsOf(BudgetItemIdArgs)
ProjectIdLists == ListsOf(ProjectIdArgs)

RecalculateMultipleBudgetItems(U) ==
  \E userId \in U, ids \in BudgetItemIdLists :
    Commit("lib.recalculateMultipleBudgetItems", userId, ids,
           recalculateMultipleBudgetItems(db, ids, userId, <<>>))

RejectRecalculateMultipleBudgetItems(U) ==
  \E userId \in U, ids \in BudgetItemIdLists :
    Abort("lib.recalculateMultipleBudgetItems", userId, ids,
          recalculateMultipleBudgetItems(db, ids, userId, <<>>))

RecalculateMultipleProjects(U) ==
  \E userId \in U, ids \in ProjectIdLists :
    Commit("lib.recalculateMultipleProjects", userId, ids,
           recalculateMultipleProjects(db, ids, userId, <<>>))

RejectRecalculateMultipleProjects(U) ==
  \E userId \in U, ids \in ProjectIdLists :
    Abort("lib.recalculateMultipleProjects", userId, ids,
          recalculateMultipleProjects(db, ids, userId, <<>>))

\* the admin enters budget items and projects, a plain user runs the loops
NextMany ==
  \/ CreateBudgetItem({1}, FundedBudgetItemArgs)
  \/ CreateProject({1}, FirstParent, SpentProjectFinancials)
  \/ RecalculateMultipleBudgetItems({2})
  \/ RejectRecalculateMultipleBudgetItems({2})
  \/ RecalculateMultipleProjects({2})
  \/ RejectRecalculateMultipleProjects({2})

SpecMany == Init /\ [][NextMany]_vars

\* positions of list ids whose id has no row in table T
MissingAt(ids, T) == {i \in DOMAIN ids : ids[i] \notin DOMAIN T}
\* the ids before the first position of list ids that has no row in T
Before(ids, T) ==
  {ids[i] : i \in {j \in DOMAIN ids : \A k \in MissingAt(ids, T) : j < k}}

\* C24: the loops over budget item ids and over project ids take the ids in
\* list order; when every id has a row the call returns one result per id, in
\* that order, and when some id has none the call fails with that id's
\* not-found error, having recomputed the rows listed before it and no other
C24_RecomputeManyFailsOnMissing ==
  [][/\ last'.op = "lib.recalculateMultipleBudgetItems"
        => LET ids == last'.id
               r == recalculateMultipleBudgetItems(db, ids, last'.userId, <<>>)
           IN /\ MissingAt(ids, budgetItems) = {}
                   => /\ last'.err = ""
                      /\ Len(last'.ret) = Len(ids)
                      /\ \A i \in DOMAIN ids : last'.ret[i].budgetItemId = ids[i]
              /\ MissingAt(ids, budgetItems) # {}
                   => /\ last'.err = "Budget item not found"
                      /\ budgetItems' = budgetItems
                      /\ \A b \in Before(ids, budgetItems) :
                           r.db.budgetItems[b].updatedBy = last'.userId
                      /\ \A b \in DOMAIN budgetItems \ Before(ids, budgetItems) :
                           r.db.budgetItems[b] = budgetItems[b]
     /\ last'.op = "lib.recalculateMultipleProjects"
        => LET ids == last'.id
               r == recalculateMultipleProjects(db, ids, last'.userId, <<>>)
               k == CHOOSE i \in MissingAt(ids, projects) :
                      \A j \in MissingAt(ids, projects) : i <= j
           IN /\ MissingAt(ids, projects) = {}
                   => /\ last'.err = ""
                      /\ Len(last'.ret) = Len(ids)
                      /\ \A i \in DOMAIN ids : last'.ret[i].projectId = ids[i]
              /\ MissingAt(ids, projects) # {}
                   => /\ last'.err = ProjectNotFound(ids[k])
                      /\ projects' = projects
                      /\ budgetItems' = budgetItems
                      /\ \A p \in Before(ids, projects) :
                           r.db.projects[p].updatedBy = last'.userId
                      /\ \A p \in DOMAIN projects \ Before(ids, projects) :
                           r.db.projects[p] = projects[p]]_vars

\* a list that names an existing budget item and then an id without a row:
\* the call failed and both budget items are as the admin entered them
C24_Witness ==
  /\ last.op = "lib.recalculateMultipleBudgetItems"
  /\ last.err = "Budget item not found"
  /\ Len(last.id) = 2
  /\ last.id[1] \in DOMAIN budgetItems
  /\ last.id[2] \notin DOMAIN budgetItems
  /\ budgetItems[last.id[1]].updatedBy = Undefined
  /\ budgetItems[last.id[1]].totalBudgetUtilized = MaxAmount
  /\ LiveProjects(projects, last.id[1]) = {}

\* C25: in every state a breakdown of an existing project is in the trash
\* exactly when that project is
C25_BreakdownFlagMirrorsProject ==
  \A c \in DOMAIN breakdowns :
    breakdowns[c].projectId \in DOMAIN projects
      => (Trashed(breakdowns[c]) <=> Trashed(projects[breakdowns[c].projectId]))

\* the call r threw inside the activity logger: its own write is issued, its
\* log write is not
ThrownAtLogWrite(r) == ~r.ok /\ r.err = "User not found for logging"

\* the outcome of the project mutation op for a caller, a target and arguments
ProjectMutationOutcome(op, userId, id, args, reason) ==
  CASE op = "projects.create" -> projectsCreate(db, userId, args)
    [] op = "projects.update" -> projectsUpdate(db, userId, id, args)
    [] op = "projects.moveToTrash" -> moveToTrash(db, userId, id, reason)
    [] op = "projects.remove" -> projectsRemove(db, userId, id, reason)

\* C26: in create, update, moveToTrash and remove of a project the parent
\* recompute comes after the mutation's own write and after its activity-log
\* write: when the call throws at the log write, no budget item has been
\* recomputed yet
C26_RecomputeAfterLogWrite ==
  [][last'.op \in {"projects.create", "projects.update", "projects.moveToTrash",
                   "projects.remove"}
       => \A args \in ProjectArgs(AnyParent, SpentProjectFinancials),
             reason \in NoReason :
            LET r == ProjectMutationOutcome(last'.op, last'.userId, last'.id,
                                            args, reason)
            IN (ThrownAtLogWrite(r) /\ last'.err = r.err)
                 => r.db.budgetItems = budgetItems]_<<last.op, last.err, vars>>

(* ---------------------------------------------------------------------- *)
(* Permanent removal by the admin and by a plain user                      *)
(* ---------------------------------------------------------------------- *)
\* the admin and a plain user, both with a users row
Members == {1, 2}

NextAuth ==
  \/ CreateBudgetItem({1}, FundedBudgetItemArgs)
  \/ CreateProject(Members, FirstParent, SpentProjectFinancials)
  \/ LogProjectReportOf({1}, {"P"}, CompletedReports)
  \/ UpdateProject({1}, FirstParent, SpentProjectFinancials)
  \/ RemoveProject(Members, NoReason)
  \/ RejectRemoveProject(Members, NoReason)

SpecAuth == Init /\ [][NextAuth]_vars

\* user u may remove project doc: its creator, or a super_admin
MayRemove(u, doc) == doc.createdBy = u \/ users[u].role = "super_admin"

\* C27: a remove call on an existing project by a user who is neither its
\* creator nor a super_admin fails with "Not authorized" before anything is
\* written: the project, its breakdowns, the budget items and the logs are as
\* before, also in the store as the call left it when it threw; a remove call
\* that returns was made by the creator or a super_admin
C27_RemoveNeedsPermission ==
  [][(/\ last'.op = "projects.remove"
      /\ last'.userId \in DOMAIN users
      /\ last'.id \in DOMAIN projects)
       => LET u == last'.userId
              doc == projects[last'.id]
          IN /\ last'.err = "" => MayRemove(u, doc)
             /\ ~MayRemove(u, doc)
                  => /\ last'.err = "Not authorized"
                     /\ projects' = projects
                     /\ breakdowns' = breakdowns
                     /\ budgetItems' = budgetItems
                     /\ projectActivities' = projectActivities
                     /\ budgetItemActivities' = budgetItemActivities
                     /\ breakdownActivities' = breakdownActivities
                     /\ \A reason \in NoReason :
                          projectsRemove(db, u, last'.id, reason).db = db]_vars

\* the plain user was refused the removal of a project the admin's report
\* created: the project, its breakdown and its budget item are still there
C27_Witness ==
  /\ last.op = "projects.remove"
  /\ last.err = "Not authorized"
  /\ last.userId = 2
  /\ last.id \in DOMAIN projects
  /\ projects[last.id].createdBy = 1
  /\ projects[last.id].budgetItemId = 1
  /\ BreakdownsOf(breakdowns, last.id) # {}
  /\ budgetItems[1].totalBudgetUtilized >= MaxAmount
  /\ \E p \in DOMAIN projects : projects[p].createdBy = 2

\* C28: no two budget items have the same name (particulars)
C28_BudgetItemNamesUnique ==
  \A a, b \in DOMAIN budgetItems :
    budgetItems[a].particulars = budgetItems[b].particulars => a = b

(* ---------------------------------------------------------------------- *)
(* References between the tables                                           *)
(* ---------------------------------------------------------------------- *)
\* budget items come and go, projects are created, reported on, moved
\* between budget items, trashed, restored and removed
NextRef ==
  \/ CreateBudgetItem({1}, FundedBudgetItemArgs)
  \/ RemoveBudgetItem({1})
  \/ CreateProject({1}, FirstParent, SpentProjectFinancials)
  \/ LogProjectReportOf({1}, {"P"}, CompletedReports)
  \/ UpdateProject({1}, AnyParent, SpentProjectFinancials)
  \/ MoveToTrash({1}, NoReason)
  \/ RestoreFromTrash({1})
  \/ RemoveProject({1}, NoReason)

SpecRef == Init /\ [][NextRef]_vars

\* C29: every project's budgetItemId, when present, is the id of an existing
\* budget item, whether the project is in the trash or not, and every
\* breakdown's projectId is the id of an existing project
C29_ReferentialIntegrity ==
  /\ \A p \in DOMAIN projects :
       projects[p].budgetItemId # Undefined
         => projects[p].budgetItemId \in DOMAIN budgetItems
  /\ \A c \in DOMAIN breakdowns : breakdowns[c].projectId \in DOMAIN projects

\* a budget item without projects was removed while the other one keeps the
\* project that a report created, with its breakdown, and an update moved
\* under it
C29_Witness ==
  /\ last.op = "budgetItems.remove"
  /\ last.err = ""
  /\ last.id \notin DOMAIN budgetItems
  /\ \E p \in DOMAIN projects :
       /\ projects[p].budgetItemId \in DOMAIN budgetItems
       /\ BreakdownsOf(breakdowns, p) # {}

(* ---------------------------------------------------------------------- *)
(* The two recomputes on stores the mutations build                        *)
(* ---------------------------------------------------------------------- *)
NextFrame ==
  \/ CreateBudgetItem({1}, FundedBudgetItemArgs)
  \/ CreateProject({1}, FirstParent, SpentProjectFinancials)
  \/ LogProjectReportOf({1}, {"P"}, CompletedReports)
  \/ UpdateProject({1}, FirstParent, SpentProjectFinancials)
  \/ RecalculateSingleBudgetItem({2})
  \/ RecalculateProjectMetrics({2})

SpecFrame == Init /\ [][NextFrame]_vars

\* the fields the budget item recompute writes, and those the project
\* recompute writes (updatedAt is not modelled)
BudgetItemDerived ==
  {"obligatedBudget", "totalBudgetUtilized", "utilizationRate",
   "projectCompleted", "projectDelayed", "projectsOnTrack", "status",
   "updatedBy"}
ProjectDerived ==
  {"projectCompleted", "projectDelayed", "projectsOnTrack", "status",
   "updatedBy"}

\* documents new and old have the same fields and differ at most in fields F
SameOutside(new, old, F) ==
  /\ DOMAIN new = DOMAIN old
  /\ \A k \in DOMAIN old \ F : new[k] = old[k]

\* table New has the rows of table Old, unchanged except row x outside F
OnlyRowChanged(New, Old, x, F) ==
  /\ DOMAIN New = DOMAIN Old
  /\ \A y \in DOMAIN Old :
       IF y = x THEN SameOutside(New[y], Old[y], F) ELSE New[y] = Old[y]

\* C30: the budget item recompute writes the derived fields of its budget
\* item and nothing else: the item's allocation, the other budget items, the
\* projects and the breakdowns are as before; the project recompute writes
\* the counts and status of its project and the derived fields of that
\* project's budget item and nothing else: the project's budget item id,
\* trash flag and own financials, the other projects and budget items and
\* every breakdown are as before
C30_RecomputeFrame ==
  [][/\ (last'.op = "budgetItems.recalculateSingleBudgetItem" /\ last'.err = "")
          => /\ OnlyRowChanged(budgetItems', budgetItems, last'.id,
                               BudgetItemDerived)
             /\ projects' = projects
             /\ breakdowns' = breakdowns
     /\ (last'.op = "lib.recalculateProjectMetrics" /\ last'.err = "")
          => /\ OnlyRowChanged(projects', projects, last'.id, ProjectDerived)
             /\ OnlyRowChanged(budgetItems', budgetItems,
                               projects[last'.id].budgetItemId, BudgetItemDerived)
             /\ breakdowns' = breakdowns]_vars

\* the project a report created and an update moved under budget item 1 was
\* recomputed: its counts are written, it keeps its spending and its
\* breakdown, its budget item was recomputed and the other one was not
C30_Witness ==
  /\ last.op = "lib.recalculateProjectMetrics"
  /\ last.err = ""
  /\ DOMAIN budgetItems = {1, 2}
  /\ projects[last.id].budgetItemId = 1
  /\ projects[last.id].updatedBy = 2
  /\ projects[last.id].totalBudgetUtilized = MaxAmount
  /\ BreakdownsOf(breakdowns, last.id) # {}
  /\ budgetItems[1].updatedBy = 2
  /\ budgetItems[2].updatedBy = Undefined

====
